---- MODULE Spec2Model ----
(***************************************************************************)
(* ServiceAtlas: the service registry (app/services/registry.py), the      *)
(* health engine (app/services/health.py) and the route table              *)
(* (app/services/gateway.py) over the store of app/models.                 *)
(*                                                                         *)
(* The store is the SQLite database of app/database.py.  Its engine is     *)
(* created without PRAGMA foreign_keys, so the ON DELETE CASCADE clauses   *)
(* of the route and dependency tables are not enforced: deleting a service *)
(* row leaves the rows that mention it.                                    *)
(*                                                                         *)
(* Time is the integer `now` (seconds); it advances by one scheduler       *)
(* period per Tick.                                                        *)
(***************************************************************************)
EXTENDS Integers, Sequences, FiniteSets, TLC

VARIABLES
    services,    \* table services: id -> row
    routes,      \* table routes: id -> row
    now,         \* datetime.utcnow()
    ret,         \* the last handler or job that ran and what it returned
    passPc,      \* check_all_services: "idle" or "run"
    passTodo,    \* ids of the pass's snapshot not probed yet
    passCache,   \* the pass's session: id -> the Service object it loaded
    passCount,   \* the pass's counters checked / healthy / unhealthy
    dependencies, \* table dependencies: id -> row
    inflight     \* requests and jobs between two of their store operations:
                 \* name -> what their session holds

vars == <<services, routes, now, ret, passPc, passTodo, passCache, passCount, dependencies, inflight>>

----------------------------------------------------------------------------
(* Settings (app/config.py) *)

health_check_interval == 30

unhealthy_threshold == 3

heartbeat_timeout == 60

(* Bounds of the model *)

MaxTicks == 3

MaxFailures == 4

MaxRoutes == 2

----------------------------------------------------------------------------
(* Values *)

NoneMeta == [present |-> FALSE, service_type |-> "", login_path |-> ""]

Meta1 == [present |-> TRUE, service_type |-> "", login_path |-> ""]

NoBasePath == ""

NoTime == -1

NoAuthConfig == [present |-> FALSE, require_auth |-> FALSE, auth_service_id |-> "", login_redirect |-> ""]

\* An optional field of a request body: <<>> when the request leaves it
\* unset, <<v>> when it supplies v.
Opt(S) == {<<>>} \cup {<<v>> : v \in S}

FromOpt(o, default) == IF o = <<>> THEN default ELSE o[1]

\* The fields of ServiceCreate that are required.
RequiredFields == {"name", "host", "port"}

\* A validated request body of POST /services.  fields_set is pydantic's
\* model_fields_set (less id); an unset field holds the schema's default.
ServiceCreate(id, name, host, port, protocol, health_check_path, is_gateway, service_meta, base_path) ==
    [id |-> id, name |-> name, host |-> host, port |-> port,
     protocol |-> FromOpt(protocol, "http"),
     health_check_path |-> FromOpt(health_check_path, "/health"),
     is_gateway |-> FromOpt(is_gateway, FALSE),
     service_meta |-> FromOpt(service_meta, NoneMeta),
     base_path |-> FromOpt(base_path, NoBasePath),
     fields_set |-> {f \in {"protocol"} : protocol # <<>>}
                    \cup {f \in {"health_check_path"} : health_check_path # <<>>}
                    \cup {f \in {"is_gateway"} : is_gateway # <<>>}
                    \cup {f \in {"service_meta"} : service_meta # <<>>}
                    \cup {f \in {"base_path"} : base_path # <<>>}]

\* model_dump(exclude_unset=True) without 'id': the fields the request set.
DumpedFields(d) == RequiredFields \cup d.fields_set

Max(S) == CHOOSE x \in S : \A y \in S : y <= x

\* The integer primary key SQLite gives a new row: one more than the largest.
NextRowId(table) == IF DOMAIN table = {} THEN 1 ELSE Max(DOMAIN table) + 1

Remove(table, key) == [k \in DOMAIN table \ {key} |-> table[k]]

----------------------------------------------------------------------------
Init ==
    /\ services = <<>>
    /\ routes = <<>>
    /\ now = 0
    /\ ret = [op |-> "init", kind |-> "none"]
    /\ passPc = "idle"
    /\ passTodo = {}
    /\ passCache = <<>>
    /\ passCount = [checked |-> 0, healthy |-> 0, unhealthy |-> 0]
    /\ dependencies = <<>>
    /\ inflight = <<>>

----------------------------------------------------------------------------
(* Registry *)

NoStripPath == ""

\* Mutant: the default route with the schema's default priority.
DefaultRoute_Priority0(rid, gw, sid, t) ==
    [id |-> rid, gateway_service_id |-> gw, path_pattern |-> "/" \o sid \o "/**",
     methods |-> "*", target_service_id |-> sid, strip_prefix |-> TRUE,
     strip_path |-> "/" \o sid, priority |-> 0, enabled |-> TRUE,
     auth_config |-> NoAuthConfig, created_at |-> t, updated_at |-> NoTime]

\* Route(...) of _create_default_route for service sid behind gateway gw.
DefaultRoute(rid, gw, sid, t) ==
    [id |-> rid, gateway_service_id |-> gw, path_pattern |-> "/" \o sid \o "/**",
     methods |-> "*", target_service_id |-> sid, strip_prefix |-> TRUE,
     strip_path |-> "/" \o sid, priority |-> 10, enabled |-> TRUE,
     auth_config |-> NoAuthConfig, created_at |-> t, updated_at |-> NoTime]

\* Mutant: the default route is added without looking for a route that
\* already targets the service.
create_default_route_NoCheck(svcs, rts, sid, t) ==
    LET gateways == {g \in DOMAIN svcs : svcs[g].is_gateway}
    IN  IF gateways = {} THEN {[error |-> FALSE, routes |-> rts]}
        ELSE {[error |-> FALSE,
               routes |-> (NextRowId(rts) :> DefaultRoute(NextRowId(rts), gw, sid, t)) @@ rts] :
                 gw \in gateways}

\* Mutant: the default route is given to any stored service, gateway or not.
create_default_route_AnyOwner(svcs, rts, sid, t) ==
    LET targeting == {r \in DOMAIN rts : rts[r].target_service_id = sid}
    IN  IF Cardinality(targeting) > 1 THEN {[error |-> TRUE, routes |-> rts]}
        ELSE IF targeting # {} THEN {[error |-> FALSE, routes |-> rts]}
        ELSE {[error |-> FALSE,
               routes |-> (NextRowId(rts) :> DefaultRoute(NextRowId(rts), gw, sid, t)) @@ rts] :
                 gw \in DOMAIN svcs}

\* Mutant: without a gateway the service becomes the owner of its own
\* default route.
create_default_route_SelfOwned(svcs, rts, sid, t) ==
    LET gateways == {g \in DOMAIN svcs : svcs[g].is_gateway}
        targeting == {r \in DOMAIN rts : rts[r].target_service_id = sid}
    IN  IF Cardinality(targeting) > 1 THEN {[error |-> TRUE, routes |-> rts]}
        ELSE IF targeting # {} THEN {[error |-> FALSE, routes |-> rts]}
        ELSE {[error |-> FALSE,
               routes |-> (NextRowId(rts) :> DefaultRoute(NextRowId(rts), gw, sid, t)) @@ rts] :
                 gw \in IF gateways = {} THEN {sid} ELSE gateways}

\* _create_default_route: the outcomes it can have on tables svcs / rts.
\* error: scalar_one_or_none() raised MultipleResultsFound.
create_default_route(svcs, rts, sid, t) ==
    LET gateways == {g \in DOMAIN svcs : svcs[g].is_gateway}
        targeting == {r \in DOMAIN rts : rts[r].target_service_id = sid}
    IN  IF gateways = {} THEN {[error |-> FALSE, routes |-> rts]}
        ELSE IF Cardinality(targeting) > 1 THEN {[error |-> TRUE, routes |-> rts]}
        ELSE IF targeting # {} THEN {[error |-> FALSE, routes |-> rts]}
        ELSE {[error |-> FALSE,
               routes |-> (NextRowId(rts) :> DefaultRoute(NextRowId(rts), gw, sid, t)) @@ rts] :
                 gw \in gateways}

\* Service(...) of register_service for a new id.
NewService(d, t) ==
    [id |-> d.id, name |-> d.name, host |-> d.host, port |-> d.port,
     protocol |-> d.protocol, health_check_path |-> d.health_check_path,
     is_gateway |-> d.is_gateway, base_path |-> d.base_path,
     service_meta |-> d.service_meta, registered_at |-> t, last_heartbeat |-> t,
     status |-> "unknown", consecutive_failures |-> 0]

\* Mutant: a re-register that overwrites only what differs from the default.
ReRegistered_SkipsDefaults(existing, d, t) ==
    [f \in DOMAIN existing |->
        IF f \in RequiredFields THEN d[f]
        ELSE IF f = "protocol" /\ f \in d.fields_set /\ d[f] # "http" THEN d[f]
        ELSE IF f \in d.fields_set \ {"protocol"} THEN d[f]
        ELSE IF f = "last_heartbeat" THEN t
        ELSE IF f = "status" THEN "unknown"
        ELSE IF f = "consecutive_failures" THEN 0
        ELSE existing[f]]

\* Mutant: a re-register that does not reset the status.
ReRegistered_KeepsStatus(existing, d, t) ==
    [f \in DOMAIN existing |->
        IF f \in DumpedFields(d) THEN d[f]
        ELSE IF f = "last_heartbeat" THEN t
        ELSE IF f = "consecutive_failures" THEN 0
        ELSE existing[f]]

\* The existing row after a re-register with body d.
ReRegistered(existing, d, t) ==
    [f \in DOMAIN existing |->
        IF f \in DumpedFields(d) THEN d[f]
        ELSE IF f = "last_heartbeat" THEN t
        ELSE IF f = "status" THEN "unknown"
        ELSE IF f = "consecutive_failures" THEN 0
        ELSE existing[f]]

\* Mutant: a re-registration calls _create_default_route as well.
register_service_Backfill(d) ==
    /\ UNCHANGED <<now, passPc, passTodo, passCache, passCount, dependencies, inflight>>
    /\ LET flushed == IF d.id \in DOMAIN services
                      THEN [services EXCEPT ![d.id] = ReRegistered(@, d, now)]
                      ELSE (d.id :> NewService(d, now)) @@ services
       IN  IF d.is_gateway
           THEN /\ services' = flushed
                /\ routes' = routes
                /\ ret' = [op |-> "register", body |-> d, existing |-> d.id \in DOMAIN services,
                           kind |-> "service", service |-> services'[d.id]]
           ELSE \E o \in create_default_route(flushed, routes, d.id, now) :
                  IF o.error
                  THEN /\ UNCHANGED <<services, routes>>
                       /\ ret' = [op |-> "register", body |-> d, existing |-> d.id \in DOMAIN services,
                                  kind |-> "error"]
                  ELSE /\ services' = flushed
                       /\ routes' = o.routes
                       /\ ret' = [op |-> "register", body |-> d, existing |-> d.id \in DOMAIN services,
                                  kind |-> "service", service |-> services'[d.id]]

\* ret.existing: the branch taken at line 59.
register_service(d) ==
    /\ UNCHANGED <<now, passPc, passTodo, passCache, passCount, dependencies, inflight>>
    /\ IF d.id \in DOMAIN services
       THEN /\ services' = [services EXCEPT ![d.id] = ReRegistered(@, d, now)]
            /\ routes' = routes
            /\ ret' = [op |-> "register", body |-> d, existing |-> TRUE,
                       kind |-> "service", service |-> services'[d.id]]
       ELSE LET flushed == (d.id :> NewService(d, now)) @@ services
            IN  IF d.is_gateway
                THEN /\ services' = flushed
                     /\ routes' = routes
                     /\ ret' = [op |-> "register", body |-> d, existing |-> FALSE,
                                kind |-> "service", service |-> services'[d.id]]
                ELSE \E o \in create_default_route(flushed, routes, d.id, now) :
                       IF o.error
                       THEN /\ UNCHANGED <<services, routes>>
                            /\ ret' = [op |-> "register", body |-> d, existing |-> FALSE,
                                       kind |-> "error"]
                       ELSE /\ services' = flushed
                            /\ routes' = o.routes
                            /\ ret' = [op |-> "register", body |-> d, existing |-> FALSE,
                                       kind |-> "service", service |-> services'[d.id]]

\* Mutant: an unregister that answers true whether or not a row was deleted.
unregister_service_AlwaysTrue(sid) ==
    /\ services' = Remove(services, sid)
    /\ ret' = [op |-> "unregister", kind |-> "bool", ok |-> TRUE]
    /\ UNCHANGED <<routes, now, passPc, passTodo, passCache, passCount, dependencies, inflight>>

\* delete(Service).where(Service.id == service_id): the routes and the
\* dependencies that mention the id stay (foreign keys are not enforced).
unregister_service(sid) ==
    /\ services' = Remove(services, sid)
    /\ ret' = [op |-> "unregister", kind |-> "bool", ok |-> sid \in DOMAIN services]
    /\ UNCHANGED <<routes, now, passPc, passTodo, passCache, passCount, dependencies, inflight>>

\* Mutant: the heartbeat leaves the failure counter alone.
Heartbeaten_KeepsFailures(service, t) ==
    [service EXCEPT !.last_heartbeat = t, !.status = "healthy"]

\* Mutant: a heartbeat that forgives one failure at a time.
Heartbeaten_ForgivesOne(service, t) ==
    [service EXCEPT !.last_heartbeat = t, !.status = "healthy",
                    !.consecutive_failures = IF @ > 0 THEN @ - 1 ELSE 0]

\* The row after heartbeat's three assignments.
Heartbeaten(service, t) ==
    [service EXCEPT !.last_heartbeat = t, !.status = "healthy", !.consecutive_failures = 0]

heartbeat(sid) ==
    /\ UNCHANGED <<routes, now, passPc, passTodo, passCache, passCount, dependencies, inflight>>
    /\ IF sid \notin DOMAIN services
       THEN /\ ret' = [op |-> "heartbeat", kind |-> "none"]
            /\ UNCHANGED services
       ELSE /\ services' = [services EXCEPT ![sid] = Heartbeaten(@, now)]
            /\ ret' = [op |-> "heartbeat", kind |-> "service", service |-> services'[sid]]

----------------------------------------------------------------------------
(* Routes *)

\* A validated request body of POST /routes (unset fields hold the
\* schema's defaults).
RouteCreate(gateway_service_id, path_pattern, target_service_id, strip_prefix, strip_path, priority, enabled, auth_config) ==
    [gateway_service_id |-> gateway_service_id, path_pattern |-> path_pattern,
     methods |-> "*", target_service_id |-> target_service_id,
     strip_prefix |-> strip_prefix, strip_path |-> strip_path,
     priority |-> priority, enabled |-> enabled, auth_config |-> auth_config]

\* Route(**route_data.model_dump()) once inserted.
NewRoute(rid, b, t) ==
    [id |-> rid, gateway_service_id |-> b.gateway_service_id,
     path_pattern |-> b.path_pattern, methods |-> b.methods,
     target_service_id |-> b.target_service_id, strip_prefix |-> b.strip_prefix,
     strip_path |-> b.strip_path, priority |-> b.priority, enabled |-> b.enabled,
     auth_config |-> b.auth_config, created_at |-> t, updated_at |-> NoTime]

\* Mutant: a route is accepted for any existing service as its gateway.
RouteAccepted_AnyService(svcs, b) ==
    /\ b.gateway_service_id \in DOMAIN svcs
    /\ b.target_service_id \in DOMAIN svcs

\* The checks of create_route: the gateway exists and is a gateway, the
\* target exists.
RouteAccepted(svcs, b) ==
    /\ b.gateway_service_id \in DOMAIN svcs
    /\ svcs[b.gateway_service_id].is_gateway
    /\ b.target_service_id \in DOMAIN svcs

create_route(b) ==
    /\ UNCHANGED <<services, now, passPc, passTodo, passCache, passCount, dependencies, inflight>>
    /\ IF RouteAccepted(services, b)
       THEN /\ routes' = (NextRowId(routes) :> NewRoute(NextRowId(routes), b, now)) @@ routes
            /\ ret' = [op |-> "create_route", kind |-> "route", route |-> routes'[NextRowId(routes)]]
       ELSE /\ routes' = routes
            /\ ret' = [op |-> "create_route", kind |-> "none"]

----------------------------------------------------------------------------
(* Time *)

Tick ==
    /\ now + health_check_interval <= MaxTicks * health_check_interval
    /\ now' = now + health_check_interval
    /\ UNCHANGED <<services, routes, ret, passPc, passTodo, passCache, passCount, dependencies, inflight>>

----------------------------------------------------------------------------
(* Health engine *)

\* Mutant: a successful probe does not reset the failure counter.
update_service_status_NoReset(service, is_healthy) ==
    IF is_healthy
    THEN [service EXCEPT !.status = "healthy"]
    ELSE LET failures == service.consecutive_failures + 1
         IN  [service EXCEPT !.consecutive_failures = failures,
                             !.status = IF failures >= unhealthy_threshold
                                        THEN "unhealthy" ELSE @]

\* Mutant: unhealthy one failure early.
update_service_status_Early(service, is_healthy) ==
    IF is_healthy
    THEN [service EXCEPT !.status = "healthy", !.consecutive_failures = 0]
    ELSE LET failures == service.consecutive_failures + 1
         IN  [service EXCEPT !.consecutive_failures = failures,
                             !.status = IF failures >= unhealthy_threshold - 1
                                        THEN "unhealthy" ELSE @]

\* Mutant: unhealthy only once the threshold is exceeded.
update_service_status_Late(service, is_healthy) ==
    IF is_healthy
    THEN [service EXCEPT !.status = "healthy", !.consecutive_failures = 0]
    ELSE LET failures == service.consecutive_failures + 1
         IN  [service EXCEPT !.consecutive_failures = failures,
                             !.status = IF failures > unhealthy_threshold
                                        THEN "unhealthy" ELSE @]

\* update_service_status on the session's object: the object afterwards.
update_service_status(service, is_healthy) ==
    IF is_healthy
    THEN [service EXCEPT !.status = "healthy", !.consecutive_failures = 0]
    ELSE LET failures == service.consecutive_failures + 1
         IN  [service EXCEPT !.consecutive_failures = failures,
                             !.status = IF failures >= unhealthy_threshold
                                        THEN "unhealthy" ELSE @]

\* The columns a flush writes: the attributes whose value differs from the
\* one the session loaded (an attribute set to its loaded value is not dirty).
Dirty(loaded, changed) == {f \in DOMAIN loaded : changed[f] # loaded[f]}

\* UPDATE services SET <dirty columns> WHERE id = ... on the stored row.
Flushed(row, changed, dirty) ==
    [f \in DOMAIN row |-> IF f \in dirty THEN changed[f] ELSE row[f]]

\* check_all_services, lines 57-65: open a session, load every service.
\* jobs: the scheduler's bookkeeping once the job has been started.
check_all_services_open(jobs) ==
    /\ passPc = "idle"
    /\ passPc' = "run"
    /\ passCache' = services
    /\ passTodo' = DOMAIN services
    /\ passCount' = [checked |-> 0, healthy |-> 0, unhealthy |-> 0]
    /\ inflight' = jobs
    /\ UNCHANGED <<services, routes, now, ret, dependencies>>

check_all_services_begin == check_all_services_open(inflight)

\* One iteration of the loop, lines 71-79: probe service sid of the snapshot
\* (is_healthy is what check_service_health answered), update and commit.
\* A flush that matches no row raises StaleDataError, which ends the pass.
check_all_services_step(sid, is_healthy) ==
    /\ passPc = "run"
    /\ sid \in passTodo
    /\ is_healthy \/ passCache[sid].consecutive_failures < MaxFailures
    /\ LET loaded == passCache[sid]
           changed == update_service_status(loaded, is_healthy)
           dirty == Dirty(loaded, changed)
       IN  IF dirty # {} /\ sid \notin DOMAIN services
           THEN /\ passPc' = "idle"
                /\ passTodo' = {}
                /\ passCache' = <<>>
                /\ ret' = [op |-> "probe", kind |-> "error"]
                /\ passCount' = [checked |-> 0, healthy |-> 0, unhealthy |-> 0]
                /\ UNCHANGED services
           ELSE /\ services' = IF dirty = {} THEN services
                               ELSE [services EXCEPT ![sid] = Flushed(@, changed, dirty)]
                /\ passCache' = [passCache EXCEPT ![sid] = changed]
                /\ passTodo' = passTodo \ {sid}
                /\ passCount' = [checked |-> passCount.checked + 1,
                                 healthy |-> passCount.healthy + (IF is_healthy THEN 1 ELSE 0),
                                 unhealthy |-> passCount.unhealthy + (IF is_healthy THEN 0 ELSE 1)]
                /\ UNCHANGED <<passPc, ret>>
    /\ UNCHANGED <<routes, now, dependencies, inflight>>

\* Mutant: the report counts the services left with status unhealthy
\* instead of the probes that failed.
check_all_services_end_ByStatus ==
    /\ passPc = "run"
    /\ passTodo = {}
    /\ passPc' = "idle"
    /\ passCache' = <<>>
    /\ ret' = [op |-> "probe", kind |-> "probe", checked |-> passCount.checked,
               healthy |-> Cardinality({sid \in DOMAIN passCache : passCache[sid].status # "unhealthy"}),
               unhealthy |-> Cardinality({sid \in DOMAIN passCache : passCache[sid].status = "unhealthy"})]
    /\ passCount' = [checked |-> 0, healthy |-> 0, unhealthy |-> 0]
    /\ UNCHANGED <<services, routes, now, passTodo, dependencies, inflight>>

\* The end of the pass, lines 81-86: return the counters.
check_all_services_end ==
    /\ passPc = "run"
    /\ passTodo = {}
    /\ passPc' = "idle"
    /\ passCache' = <<>>
    /\ ret' = [op |-> "probe", kind |-> "probe", checked |-> passCount.checked,
               healthy |-> passCount.healthy, unhealthy |-> passCount.unhealthy]
    /\ passCount' = [checked |-> 0, healthy |-> 0, unhealthy |-> 0]
    /\ UNCHANGED <<services, routes, now, passTodo, dependencies, inflight>>

\* Mutant: a heartbeat exactly heartbeat_timeout old counts as timed out.
TimedOut_Inclusive(svcs, t) ==
    {sid \in DOMAIN svcs : /\ svcs[sid].last_heartbeat <= t - heartbeat_timeout
                           /\ svcs[sid].status # "unhealthy"}

\* The rows check_heartbeat_timeout selects.
TimedOut(svcs, t) ==
    {sid \in DOMAIN svcs : /\ svcs[sid].last_heartbeat < t - heartbeat_timeout
                           /\ svcs[sid].status # "unhealthy"}

\* jobs: the scheduler's bookkeeping once the job has been started.
check_heartbeat_timeout_run(jobs) ==
    /\ services' = [sid \in DOMAIN services |->
                       IF sid \in TimedOut(services, now)
                       THEN [services[sid] EXCEPT !.status = "unhealthy"]
                       ELSE services[sid]]
    /\ ret' = [op |-> "sweep", kind |-> "count", n |-> Cardinality(TimedOut(services, now))]
    /\ inflight' = jobs
    /\ UNCHANGED <<routes, now, passPc, passTodo, passCache, passCount, dependencies>>

check_heartbeat_timeout == check_heartbeat_timeout_run(inflight)

----------------------------------------------------------------------------
(* Spec: the registry and the health engine on two services.  Requests and  *)
(* jobs run one after the other: a request is served while no probe pass    *)
(* is in progress.                                                          *)

HealthIds == {"a", "b"}

\* Registrations that supply the required fields only.
HealthCreates ==
    {ServiceCreate(id, "n1", "h1", 8000, <<>>, <<>>, <<>>, <<>>, <<>>) : id \in HealthIds}

Idle == passPc = "idle"

Next ==
    \/ Idle /\ \E d \in HealthCreates : register_service(d)
    \/ Idle /\ \E sid \in HealthIds : unregister_service(sid)
    \/ Idle /\ \E sid \in HealthIds : heartbeat(sid)
    \/ Idle /\ check_heartbeat_timeout
    \/ check_all_services_begin
    \/ \E sid \in HealthIds, is_healthy \in BOOLEAN : check_all_services_step(sid, is_healthy)
    \/ check_all_services_end
    \/ Tick

Spec == Init /\ [][Next]_vars

----------------------------------------------------------------------------
(* Properties of Spec *)

Exists(sid) == sid \in DOMAIN services

OthersUnchanged(sid) ==
    /\ DOMAIN services' \ {sid} = DOMAIN services \ {sid}
    /\ \A o \in DOMAIN services \ {sid} : services'[o] = services[o]

\* C1: a heartbeat on an existing service, whatever its state, leaves the row
\* healthy with no failures and last_heartbeat = now; on an absent id it
\* returns nothing, creates no row and changes no row.
C1_Heartbeat ==
    [][\A sid \in HealthIds : heartbeat(sid) =>
          /\ OthersUnchanged(sid)
          /\ Exists(sid) =>
                /\ sid \in DOMAIN services'
                /\ services'[sid].status = "healthy"
                /\ services'[sid].consecutive_failures = 0
                /\ services'[sid].last_heartbeat = now
          /\ ~Exists(sid) =>
                /\ ret'.kind = "none"
                /\ services' = services]_vars

\* C1 witness: a heartbeat has just been answered for a service registered
\* earlier, while another service sits unhealthy beside it.
C1_Witness ==
    /\ ret.op = "heartbeat" /\ ret.kind = "service"
    /\ ret.service.registered_at < now
    /\ services[ret.service.id] = ret.service
    /\ \E o \in DOMAIN services : services[o].status = "unhealthy"

\* C2: a probe result on a service: success gives healthy and 0 failures;
\* failure adds exactly one failure and gives unhealthy when the new count
\* has reached unhealthy_threshold, else leaves the status; last_heartbeat
\* is unchanged either way.
C2_ProbeResult ==
    [][\A sid \in HealthIds, is_healthy \in BOOLEAN :
          (check_all_services_step(sid, is_healthy) /\ Exists(sid)) =>
             LET old == services[sid]
                 new == services'[sid]
             IN  /\ new.last_heartbeat = old.last_heartbeat
                 /\ is_healthy => new.status = "healthy" /\ new.consecutive_failures = 0
                 /\ ~is_healthy =>
                       /\ new.consecutive_failures = old.consecutive_failures + 1
                       /\ new.consecutive_failures >= unhealthy_threshold
                             => new.status = "unhealthy"
                       /\ new.consecutive_failures < unhealthy_threshold
                             => new.status = old.status]_vars

\* C2 witness: a pass is under way, one service of it has been probed
\* healthy and another has failed past the threshold.
C2_Witness ==
    /\ passPc = "run"
    /\ passCount.healthy > 0 /\ passCount.unhealthy > 0
    /\ \E sid \in DOMAIN services :
          /\ services[sid].status = "unhealthy"
          /\ services[sid].consecutive_failures > unhealthy_threshold

IntoUnhealthy(sid) ==
    /\ sid \in DOMAIN services /\ sid \in DOMAIN services'
    /\ services[sid].status # "unhealthy"
    /\ services'[sid].status = "unhealthy"

\* C3 as claimed: whenever a status changes into unhealthy, by a probe or by
\* the sweep, the failure counter is at least unhealthy_threshold.
C3_AsClaimed ==
    [][\A sid \in HealthIds :
          IntoUnhealthy(sid) =>
             services'[sid].consecutive_failures >= unhealthy_threshold]_vars

\* C3 amended: a status changes into unhealthy either with the failure
\* counter at least unhealthy_threshold (a probe), or by the sweep on a
\* service whose heartbeat timed out, whatever its counter.
C3_Amended ==
    [][\A sid \in HealthIds :
          IntoUnhealthy(sid) =>
             \/ services'[sid].consecutive_failures >= unhealthy_threshold
             \/ /\ check_heartbeat_timeout
                /\ services[sid].last_heartbeat < now - heartbeat_timeout]_vars

\* C3 witness: the sweep has just marked a service that has no failure,
\* beside a service whose heartbeat is recent and which probes alone made
\* unhealthy.
C3_Witness ==
    /\ ret.op = "sweep" /\ ret.n > 0
    /\ \E x, y \in DOMAIN services :
          /\ services[x].status = "unhealthy"
          /\ services[x].consecutive_failures = unhealthy_threshold
          /\ services[x].last_heartbeat >= now - heartbeat_timeout
          /\ services[y].status = "unhealthy"
          /\ services[y].consecutive_failures = 0

\* C4: from consecutive_failures = 0, with only failing probes in between,
\* the k-th failure brings the counter to k; the status is left alone while
\* k < unhealthy_threshold and is unhealthy with the counter equal to
\* unhealthy_threshold on the threshold-th; a heartbeat that follows gives
\* healthy and 0.
C4_FailureRun ==
    [][\A sid \in HealthIds :
          /\ (check_all_services_step(sid, FALSE) /\ Exists(sid)) =>
                LET k == services[sid].consecutive_failures + 1
                IN  /\ services'[sid].consecutive_failures = k
                    /\ k < unhealthy_threshold => services'[sid].status = services[sid].status
                    /\ k = unhealthy_threshold => services'[sid].status = "unhealthy"
          /\ (/\ heartbeat(sid) /\ Exists(sid)
              /\ services[sid].status = "unhealthy"
              /\ services[sid].consecutive_failures = unhealthy_threshold) =>
                /\ services'[sid].status = "healthy"
                /\ services'[sid].consecutive_failures = 0]_vars

\* C4 witness: in the middle of such a run: never heartbeaten, still
\* unknown after unhealthy_threshold - 1 failures, the third probe pending.
C4_Witness ==
    \E sid \in passTodo :
       /\ Exists(sid)
       /\ services[sid].status = "unknown"
       /\ services[sid].consecutive_failures = unhealthy_threshold - 1
       /\ passCache[sid] = services[sid]

\* C5: one sweep marks unhealthy exactly the services that are not yet
\* unhealthy and whose last_heartbeat is older than now - heartbeat_timeout,
\* returns how many it marked, changes nothing else of any service, and a
\* heartbeat brings a swept service back to healthy.
C5_Sweep ==
    [][\A sid \in HealthIds :
          /\ (check_heartbeat_timeout /\ Exists(sid)) =>
                LET old == services[sid]
                    marked == {x \in DOMAIN services :
                                 /\ services[x].status # "unhealthy"
                                 /\ services[x].last_heartbeat < now - heartbeat_timeout}
                IN  /\ DOMAIN services' = DOMAIN services
                    /\ services'[sid] = IF sid \in marked
                                        THEN [old EXCEPT !.status = "unhealthy"]
                                        ELSE old
                    /\ ret'.kind = "count" /\ ret'.n = Cardinality(marked)
          /\ (/\ heartbeat(sid) /\ Exists(sid)
              /\ services[sid].status = "unhealthy"
              /\ services[sid].consecutive_failures < unhealthy_threshold) =>
                services'[sid].status = "healthy"]_vars

\* C5 witness: a sweep has just marked one service and passed over another
\* whose heartbeat is exactly heartbeat_timeout old.
C5_Witness ==
    /\ ret.op = "sweep" /\ ret.n = 1
    /\ \E x, y \in DOMAIN services :
          /\ services[x].status = "unhealthy"
          /\ services[x].last_heartbeat < now - heartbeat_timeout
          /\ services[y].status # "unhealthy"
          /\ services[y].last_heartbeat = now - heartbeat_timeout

\* C6: a register of an id that exists leaves the row with status unknown,
\* no failures, last_heartbeat = now and registered_at as it was, and adds
\* no row.
C6_ReRegister ==
    [][\A d \in HealthCreates :
          (register_service(d) /\ Exists(d.id)) =>
             /\ DOMAIN services' = DOMAIN services
             /\ services'[d.id].status = "unknown"
             /\ services'[d.id].consecutive_failures = 0
             /\ services'[d.id].last_heartbeat = now
             /\ services'[d.id].registered_at = services[d.id].registered_at
             /\ OthersUnchanged(d.id)]_vars

\* C6 witness: a register has just answered with a row registered earlier.
C6_Witness ==
    /\ ret.op = "register" /\ ret.kind = "service"
    /\ ret.service.registered_at < ret.service.last_heartbeat
    /\ ret.service.last_heartbeat = now
    /\ services[ret.service.id] = ret.service

----------------------------------------------------------------------------
(* SpecFields: one service id, registered with every combination of        *)
(* supplied and unset optional fields.                                     *)

FieldIds == {"a"}

FieldCreates ==
    {ServiceCreate(id, name, "h1", 8000, protocol, <<>>, is_gateway, service_meta, <<>>) :
        id \in FieldIds, name \in {"n1", "n2"}, protocol \in Opt({"http", "https"}),
        is_gateway \in Opt(BOOLEAN), service_meta \in Opt({NoneMeta, Meta1})}

NextFields ==
    \/ \E d \in FieldCreates : register_service(d)
    \/ \E sid \in FieldIds : unregister_service(sid)
    \/ \E sid \in FieldIds : heartbeat(sid)
    \/ Tick

SpecFields == Init /\ [][NextFields]_vars

\* The descriptive fields of a service that a registration carries.
DescriptiveFields ==
    {"name", "host", "port", "protocol", "health_check_path", "is_gateway", "service_meta"}

LifecycleReset(row) ==
    /\ row.status = "unknown"
    /\ row.consecutive_failures = 0
    /\ row.last_heartbeat = now

\* C7 as claimed: after registrations d1 then d2 of one id the row equals d2
\* in every descriptive field, those d2 leaves at their default included,
\* with the lifecycle fields reset.
C7_AsClaimed ==
    [][(ret'.op = "register" /\ register_service(ret'.body) /\ Exists(ret'.body.id)) =>
          LET d == ret'.body
          IN  /\ \A f \in DescriptiveFields : services'[d.id][f] = d[f]
              /\ LifecycleReset(services'[d.id])]_vars

\* C7 amended: after registrations d1 then d2 of one id the row equals d2 in
\* every descriptive field d2 supplies and keeps its previous value in every
\* field d2 leaves unset, with the lifecycle fields reset.
C7_Amended ==
    [][(ret'.op = "register" /\ register_service(ret'.body) /\ Exists(ret'.body.id)) =>
          LET d == ret'.body
          IN  /\ \A f \in DescriptiveFields :
                    services'[d.id][f] = IF f \in RequiredFields \cup d.fields_set
                                         THEN d[f] ELSE services[d.id][f]
              /\ LifecycleReset(services'[d.id])]_vars

\* C7 witness: a re-register whose body left protocol unset has answered,
\* and the row still holds the https of the earlier registration, while the
\* body explicitly supplied the default is_gateway = FALSE.
C7_Witness ==
    /\ ret.op = "register" /\ ret.kind = "service"
    /\ ret.service.registered_at < ret.service.last_heartbeat
    /\ "protocol" \notin ret.body.fields_set
    /\ "is_gateway" \in ret.body.fields_set /\ ~ret.body.is_gateway
    /\ services[ret.body.id].protocol = "https"
    /\ ~services[ret.body.id].is_gateway

----------------------------------------------------------------------------
(* SpecRoutes: three service ids, gateways among them, and the route table. *)

RouteIds == {"a", "b", "c"}

\* Registrations that leave is_gateway unset, or supply it.
RouteServiceCreates ==
    {ServiceCreate(id, "n1", "h1", 8000, <<>>, <<>>, is_gateway, <<>>, <<>>) :
        id \in RouteIds, is_gateway \in Opt(BOOLEAN)}

RouteCreates ==
    {RouteCreate(gw, "/x/*", target, FALSE, NoStripPath, 0, TRUE, NoAuthConfig) :
        gw \in {"a", "b"}, target \in {"a", "c"}}

NextRoutes ==
    \/ \E d \in RouteServiceCreates : register_service(d)
    \/ \E sid \in RouteIds : unregister_service(sid)
    \/ Cardinality(DOMAIN routes) < MaxRoutes /\ \E b \in RouteCreates : create_route(b)

SpecRoutes == Init /\ [][NextRoutes]_vars

\* The step is register_service answering the body now held in ret.
Registers == ret'.op = "register" /\ register_service(ret'.body)

Targeting(rts, sid) == {r \in DOMAIN rts : rts[r].target_service_id = sid}

Gateways(svcs) == {g \in DOMAIN svcs : svcs[g].is_gateway}

\* C8 as claimed: registering an id that does not exist inserts exactly one
\* row, with status unknown, no failures and registered_at = last_heartbeat
\* = now, returns that row and changes no other row.
C8_AsClaimed ==
    [][(Registers /\ ~Exists(ret'.body.id)) =>
          LET sid == ret'.body.id
          IN  /\ DOMAIN services' = DOMAIN services \cup {sid}
              /\ services'[sid].status = "unknown"
              /\ services'[sid].consecutive_failures = 0
              /\ services'[sid].registered_at = now
              /\ services'[sid].last_heartbeat = now
              /\ ret'.kind = "service" /\ ret'.service = services'[sid]
              /\ OthersUnchanged(sid)]_vars

\* The default route of service sid, written out.
IsDefaultRouteOf(r, sid) ==
    /\ r.target_service_id = sid
    /\ r.path_pattern = (CASE sid = "a" -> "/a/**" [] sid = "b" -> "/b/**" [] sid = "c" -> "/c/**")
    /\ r.strip_prefix = TRUE
    /\ r.strip_path = (CASE sid = "a" -> "/a" [] sid = "b" -> "/b" [] sid = "c" -> "/c")
    /\ r.priority = 10
    /\ r.enabled = TRUE

\* C9: the first registration of a non-gateway service S while a gateway
\* exists and no route targets S inserts exactly one route, owned by one of
\* the existing gateways, /S/** with strip_prefix, strip_path /S, priority
\* 10, enabled, target S, however many gateways there are; registering a
\* gateway inserts no route.
C9_DefaultRoute ==
    [][Registers =>
          LET d == ret'.body
          IN  /\ (/\ ~Exists(d.id) /\ ~d.is_gateway
                  /\ Gateways(services) # {}
                  /\ Targeting(routes, d.id) = {}) =>
                    /\ d.id \in DOMAIN services'
                    /\ \E rid \in DOMAIN routes' \ DOMAIN routes :
                          /\ DOMAIN routes' = DOMAIN routes \cup {rid}
                          /\ IsDefaultRouteOf(routes'[rid], d.id)
                          /\ routes'[rid].gateway_service_id \in Gateways(services)
                    /\ \A r \in DOMAIN routes : routes'[r] = routes[r]
              /\ d.is_gateway => routes' = routes]_vars

\* C9 witness: a non-gateway service has just been registered for the first
\* time with two gateways present, and one route targets it.
C9_Witness ==
    /\ ret.op = "register" /\ ret.kind = "service" /\ ~ret.existing
    /\ ~ret.service.is_gateway
    /\ Cardinality(Gateways(services)) = 2
    /\ \E rid \in DOMAIN routes :
          /\ Targeting(routes, ret.service.id) = {rid}
          /\ rid = Max(DOMAIN routes)
          /\ IsDefaultRouteOf(routes[rid], ret.service.id)

\* C10: a re-register of a registered non-gateway service leaves the set of
\* routes targeting it (and the whole route table) as it was; a register
\* adds a route to a service only when none targets it, so a service never
\* has two default routes.
C10_ReRegisterNoRoute ==
    [][Registers =>
          LET sid == ret'.body.id
          IN  /\ Exists(sid) => routes' = routes
              /\ \/ Targeting(routes', sid) = Targeting(routes, sid)
                 \/ /\ ~Exists(sid)
                    /\ Targeting(routes, sid) = {}
                    /\ Cardinality(Targeting(routes', sid)) = 1
              /\ Cardinality({r \in DOMAIN routes' : IsDefaultRouteOf(routes'[r], sid)}) <= 1]_vars

\* C10 witness: a non-gateway service that has its default route has just
\* been registered again, a gateway being present.
C10_Witness ==
    /\ ret.op = "register" /\ ret.kind = "service" /\ ret.existing
    /\ ~ret.service.is_gateway
    /\ Gateways(services) # {}
    /\ \E rid \in DOMAIN routes :
          /\ Targeting(routes, ret.service.id) = {rid}
          /\ IsDefaultRouteOf(routes[rid], ret.service.id)

----------------------------------------------------------------------------
(* Dependencies *)

NoDescription == ""

\* A validated request body of POST /dependencies.
DependencyCreate(source_service_id, target_service_id, description) ==
    [source_service_id |-> source_service_id,
     target_service_id |-> target_service_id, description |-> description]

\* Dependency(**dependency_data.model_dump()) once inserted.
NewDependency(did, b, t) ==
    [id |-> did, source_service_id |-> b.source_service_id,
     target_service_id |-> b.target_service_id, description |-> b.description,
     created_at |-> t]

\* The check of create_dependency: both services exist.
DependencyAccepted(svcs, b) ==
    /\ b.source_service_id \in DOMAIN svcs
    /\ b.target_service_id \in DOMAIN svcs

\* The rows existing_query selects.
ExistingEdges(deps, b) ==
    {d \in DOMAIN deps : /\ deps[d].source_service_id = b.source_service_id
                         /\ deps[d].target_service_id = b.target_service_id}

\* create_dependency served without another request in between.  When the
\* edge exists, scalar_one_or_none() is called a second time on the result
\* the first call has closed and raises ResourceClosedError (with two rows
\* the first call raises MultipleResultsFound): ret.kind = "error".
create_dependency(b) ==
    /\ UNCHANGED <<services, routes, now, passPc, passTodo, passCache, passCount, inflight>>
    /\ IF ~DependencyAccepted(services, b)
       THEN /\ dependencies' = dependencies
            /\ ret' = [op |-> "create_dependency", body |-> b, kind |-> "none"]
       ELSE IF ExistingEdges(dependencies, b) # {}
       THEN /\ dependencies' = dependencies
            /\ ret' = [op |-> "create_dependency", body |-> b, kind |-> "error"]
       ELSE /\ dependencies' = (NextRowId(dependencies) :>
                                  NewDependency(NextRowId(dependencies), b, now)) @@ dependencies
            /\ ret' = [op |-> "create_dependency", body |-> b, kind |-> "dependency",
                       dependency |-> dependencies'[NextRowId(dependencies)]]

----------------------------------------------------------------------------
(* SpecStore: a service a, a gateway b, routes from b to a and dependencies *)
(* between the two, requests served one after the other.                   *)

MaxDependencies == 2

StoreIds == {"a", "b"}

StoreServiceCreates ==
    {ServiceCreate("a", "n1", "h1", 8000, <<>>, <<>>, <<>>, <<>>, <<>>),
     ServiceCreate("b", "n1", "h1", 8000, <<>>, <<>>, <<TRUE>>, <<>>, <<>>)}

StoreRouteCreates ==
    {RouteCreate("b", "/x/*", "a", FALSE, NoStripPath, 0, TRUE, NoAuthConfig)}

DependencyCreates ==
    {DependencyCreate(source, target, NoDescription) : source \in StoreIds, target \in StoreIds}

NextStore ==
    \/ \E d \in StoreServiceCreates : register_service(d)
    \/ \E sid \in StoreIds : unregister_service(sid)
    \/ Cardinality(DOMAIN routes) < MaxRoutes /\ \E b \in StoreRouteCreates : create_route(b)
    \/ Cardinality(DOMAIN dependencies) < MaxDependencies
          /\ \E b \in DependencyCreates : create_dependency(b)

SpecStore == Init /\ [][NextStore]_vars

\* The routes and the dependencies that mention service sid, in either role.
RoutesMentioning(rts, sid) ==
    {r \in DOMAIN rts : rts[r].gateway_service_id = sid \/ rts[r].target_service_id = sid}

DependenciesMentioning(deps, sid) ==
    {d \in DOMAIN deps : deps[d].source_service_id = sid \/ deps[d].target_service_id = sid}

\* C11 as claimed: after the unregister of an existing service sid no
\* dependency has sid as source or target and no route has sid as gateway or
\* target, and the services, dependencies and routes that do not mention
\* sid are as they were.
C11_AsClaimed ==
    [][\A sid \in StoreIds :
          (unregister_service(sid) /\ Exists(sid)) =>
             /\ DependenciesMentioning(dependencies', sid) = {}
             /\ RoutesMentioning(routes', sid) = {}
             /\ OthersUnchanged(sid)
             /\ \A d \in DOMAIN dependencies \ DependenciesMentioning(dependencies, sid) :
                   d \in DOMAIN dependencies' /\ dependencies'[d] = dependencies[d]
             /\ \A r \in DOMAIN routes \ RoutesMentioning(routes, sid) :
                   r \in DOMAIN routes' /\ routes'[r] = routes[r]]_vars

\* C12: unregister answers true exactly when the id existed, and the id is
\* then gone; for an absent id it answers false and leaves services, routes
\* and dependencies as they were, so a second unregister of the id answers
\* false.
C12_Unregister ==
    [][\A sid \in StoreIds :
          unregister_service(sid) =>
             /\ ret'.kind = "bool" /\ ret'.ok = Exists(sid)
             /\ sid \notin DOMAIN services'
             /\ OthersUnchanged(sid)
             /\ ~Exists(sid) =>
                   /\ ~ret'.ok
                   /\ services' = services
                   /\ routes' = routes
                   /\ dependencies' = dependencies]_vars

\* C12 witness: an unregister has just answered false on a store that holds
\* a service, a route and a dependency.
C12_Witness ==
    /\ ret.op = "unregister" /\ ~ret.ok
    /\ services # <<>> /\ routes # <<>> /\ dependencies # <<>>

----------------------------------------------------------------------------
(* Update *)

\* A validated request body of PUT /services/{id}: every field is optional;
\* fields_set is pydantic's model_fields_set, an unset field holds None.
ServiceUpdate(name, host, port, protocol, health_check_path, is_gateway, service_meta) ==
    [name |-> FromOpt(name, ""), host |-> FromOpt(host, ""), port |-> FromOpt(port, 0),
     protocol |-> FromOpt(protocol, ""),
     health_check_path |-> FromOpt(health_check_path, ""),
     is_gateway |-> FromOpt(is_gateway, FALSE),
     service_meta |-> FromOpt(service_meta, NoneMeta),
     fields_set |-> {f \in {"name"} : name # <<>>}
                    \cup {f \in {"host"} : host # <<>>}
                    \cup {f \in {"port"} : port # <<>>}
                    \cup {f \in {"protocol"} : protocol # <<>>}
                    \cup {f \in {"health_check_path"} : health_check_path # <<>>}
                    \cup {f \in {"is_gateway"} : is_gateway # <<>>}
                    \cup {f \in {"service_meta"} : service_meta # <<>>}]

\* Mutant: an update that resets the status as a re-register does.
Updated_ResetsStatus(service, u) ==
    [f \in DOMAIN service |->
        IF f \in u.fields_set THEN u[f]
        ELSE IF f = "status" THEN "unknown"
        ELSE service[f]]

\* The row after the setattr loop over model_dump(exclude_unset=True).
Updated(service, u) ==
    [f \in DOMAIN service |-> IF f \in u.fields_set THEN u[f] ELSE service[f]]

update_service(sid, u) ==
    /\ UNCHANGED <<routes, now, passPc, passTodo, passCache, passCount, dependencies, inflight>>
    /\ IF sid \notin DOMAIN services
       THEN /\ ret' = [op |-> "update", body |-> u, kind |-> "none"]
            /\ UNCHANGED services
       ELSE /\ services' = [services EXCEPT ![sid] = Updated(@, u)]
            /\ ret' = [op |-> "update", body |-> u, kind |-> "service",
                       service |-> services'[sid]]

----------------------------------------------------------------------------
(* SpecUpdate: one service through registration, heartbeats, probes, the   *)
(* sweep and updates, served one after the other.                          *)

UpdateIds == {"a"}

UpdateCreates ==
    {ServiceCreate(id, "n1", "h1", 8000, <<>>, <<>>, <<>>, <<>>, <<>>) : id \in UpdateIds}

ServiceUpdates ==
    {ServiceUpdate(name, <<>>, <<>>, protocol, <<>>, is_gateway, <<>>) :
        name \in Opt({"n2"}), protocol \in Opt({"https"}), is_gateway \in Opt({TRUE})}

NextUpdate ==
    \/ Idle /\ \E d \in UpdateCreates : register_service(d)
    \/ Idle /\ \E sid \in UpdateIds : unregister_service(sid)
    \/ Idle /\ \E sid \in UpdateIds : heartbeat(sid)
    \/ Idle /\ \E sid \in UpdateIds, u \in ServiceUpdates : update_service(sid, u)
    \/ Idle /\ check_heartbeat_timeout
    \/ check_all_services_begin
    \/ \E sid \in UpdateIds, is_healthy \in BOOLEAN : check_all_services_step(sid, is_healthy)
    \/ check_all_services_end
    \/ Tick

SpecUpdate == Init /\ [][NextUpdate]_vars

LifecycleFields == {"status", "last_heartbeat", "consecutive_failures", "registered_at"}

\* C13: an update of an existing service gives every supplied field the
\* supplied value and leaves status, last_heartbeat, consecutive_failures,
\* registered_at and every unsupplied descriptive field as they were; on an
\* absent id it returns nothing and changes nothing.
C13_Update ==
    [][\A sid \in UpdateIds, u \in ServiceUpdates :
          update_service(sid, u) =>
             /\ routes' = routes /\ dependencies' = dependencies
             /\ OthersUnchanged(sid)
             /\ Exists(sid) =>
                   /\ sid \in DOMAIN services'
                   /\ \A f \in LifecycleFields : services'[sid][f] = services[sid][f]
                   /\ \A f \in DescriptiveFields :
                         services'[sid][f] = IF f \in u.fields_set THEN u[f]
                                             ELSE services[sid][f]
             /\ ~Exists(sid) =>
                   /\ ret'.kind = "none"
                   /\ services' = services]_vars

\* C13 witness: an update that supplied a name and no protocol has just
\* answered for a service that heartbeats once made healthy and failed
\* probes then made unhealthy: the row holds the new name, the old protocol
\* and its lifecycle fields.
C13_Witness ==
    /\ ret.op = "update" /\ ret.kind = "service"
    /\ ret.body.fields_set = {"name"}
    /\ services[ret.service.id] = ret.service
    /\ ret.service.name = "n2" /\ ret.service.protocol = "http"
    /\ ret.service.status = "unhealthy"
    /\ ret.service.consecutive_failures = unhealthy_threshold
    /\ ret.service.registered_at < ret.service.last_heartbeat

----------------------------------------------------------------------------
(* Discovery *)

\* Mutant: discovery that hides only the unhealthy services.
Discovered_NotUnhealthy(svcs, sid) ==
    IF sid \in DOMAIN svcs /\ svcs[sid].status # "unhealthy" THEN <<svcs[sid]>> ELSE <<>>

\* What discover_service returns on table svcs: <<service>>, or <<>> for None.
Discovered(svcs, sid) ==
    IF sid \in DOMAIN svcs /\ svcs[sid].status = "healthy" THEN <<svcs[sid]>> ELSE <<>>

discover_service(sid) ==
    /\ ret' = IF Discovered(services, sid) = <<>>
              THEN [op |-> "discover", sid |-> sid, kind |-> "none"]
              ELSE [op |-> "discover", sid |-> sid, kind |-> "service",
                    service |-> Discovered(services, sid)[1]]
    /\ UNCHANGED <<services, routes, now, passPc, passTodo, passCache, passCount, dependencies, inflight>>

----------------------------------------------------------------------------
(* SpecDiscover: one service through its whole life cycle, and discovery   *)
(* requests, served one after the other.                                   *)

DiscoverIds == {"a"}

DiscoverCreates ==
    {ServiceCreate(id, "n1", "h1", 8000, <<>>, <<>>, <<>>, <<>>, <<>>) : id \in DiscoverIds}

NextDiscover ==
    \/ Idle /\ \E d \in DiscoverCreates : register_service(d)
    \/ Idle /\ \E sid \in DiscoverIds : unregister_service(sid)
    \/ Idle /\ \E sid \in DiscoverIds : heartbeat(sid)
    \/ Idle /\ \E sid \in DiscoverIds : discover_service(sid)
    \/ Idle /\ check_heartbeat_timeout
    \/ check_all_services_begin
    \/ \E sid \in DiscoverIds, is_healthy \in BOOLEAN : check_all_services_step(sid, is_healthy)
    \/ check_all_services_end
    \/ Tick

SpecDiscover == Init /\ [][NextDiscover]_vars

\* C14: discovery returns the service exactly when it is stored with status
\* healthy, and changes nothing; after a register or re-register the service
\* is not discoverable; after a heartbeat or a successful probe it is; once
\* a probe or the sweep has marked it unhealthy it is not.
C14_Discover ==
    [][\A sid \in DiscoverIds :
          /\ discover_service(sid) =>
                /\ ret'.kind = "service" <=> (Exists(sid) /\ services[sid].status = "healthy")
                /\ ret'.kind = "service" => ret'.service = services[sid]
                /\ services' = services
          /\ (\E d \in DiscoverCreates : d.id = sid /\ register_service(d)) =>
                Exists(sid)' /\ Discovered(services', sid) = <<>>
          /\ (heartbeat(sid) /\ Exists(sid)) =>
                Discovered(services', sid) = <<services'[sid]>>
          /\ (check_all_services_step(sid, TRUE) /\ Exists(sid)) =>
                Discovered(services', sid) = <<services'[sid]>>
          /\ IntoUnhealthy(sid) => Discovered(services', sid) = <<>>]_vars

\* C14 witness: discovery has just answered nothing for a service that was
\* healthy and registered again since, and is stored with status unknown.
C14_Witness ==
    /\ ret.op = "discover" /\ ret.kind = "none"
    /\ Exists(ret.sid)
    /\ services[ret.sid].status = "unknown"
    /\ services[ret.sid].registered_at < services[ret.sid].last_heartbeat

\* C14, the other case: discovery has just answered a service whose
\* heartbeat has timed out and which a successful probe made healthy.
C14_WitnessFound ==
    /\ ret.op = "discover" /\ ret.kind = "service"
    /\ ret.service = services[ret.sid]
    /\ ret.service.last_heartbeat < now - heartbeat_timeout

\* C15: a heartbeat that follows a heartbeat of the same service, with no
\* other operation in between, leaves the row the first one left except for
\* last_heartbeat, which is now and has not decreased; the status is healthy
\* and the failure counter 0 after each.
C15_HeartbeatTwice ==
    [][\A sid \in DiscoverIds :
          (/\ heartbeat(sid)
           /\ ret.op = "heartbeat" /\ ret.kind = "service"
           /\ Exists(sid) /\ services[sid] = ret.service) =>
             /\ services[sid].status = "healthy"
             /\ services[sid].consecutive_failures = 0
             /\ services'[sid] = [services[sid] EXCEPT !.last_heartbeat = now]
             /\ services'[sid].last_heartbeat >= services[sid].last_heartbeat
             /\ services'[sid] = Heartbeaten(services[sid], now)]_vars

\* C15 witness: a heartbeat has answered, the row is as it left it and time
\* has passed since, so that a second heartbeat moves last_heartbeat.
C15_Witness ==
    /\ ret.op = "heartbeat" /\ ret.kind = "service"
    /\ Exists(ret.service.id) /\ services[ret.service.id] = ret.service
    /\ ret.service.last_heartbeat < now
    /\ passPc = "idle"

----------------------------------------------------------------------------
(* A heartbeat request step by step: its session loads the row, the three  *)
(* assignments are made on the loaded object, and the commit flushes the   *)
(* columns that differ from what was loaded.  Other sessions may commit in *)
(* between.                                                                *)

\* heartbeat, lines 209-213: db.get and the assignments.
\* jobs: the scheduler's bookkeeping once the call has been started.
heartbeat_load(sid, jobs) ==
    /\ "heartbeat" \notin DOMAIN inflight
    /\ IF sid \notin DOMAIN services
       THEN /\ ret' = [op |-> "heartbeat", kind |-> "none"]
            /\ inflight' = jobs
       ELSE /\ inflight' = ("heartbeat" :> [sid |-> sid, loaded |-> services[sid],
                                           changed |-> Heartbeaten(services[sid], now)]) @@ jobs
            /\ UNCHANGED ret
    /\ UNCHANGED <<services, routes, now, passPc, passTodo, passCache, passCount, dependencies>>

heartbeat_get(sid) == heartbeat_load(sid, inflight)

\* heartbeat, lines 215-217: commit, refresh, return.  On a row deleted in
\* between the flush (StaleDataError) or the refresh raises.
heartbeat_commit ==
    /\ "heartbeat" \in DOMAIN inflight
    /\ LET h == inflight["heartbeat"]
           dirty == Dirty(h.loaded, h.changed)
       IN  IF h.sid \notin DOMAIN services
           THEN /\ ret' = [op |-> "heartbeat", kind |-> "error"]
                /\ UNCHANGED services
           ELSE /\ services' = [services EXCEPT ![h.sid] = Flushed(@, h.changed, dirty)]
                /\ ret' = [op |-> "heartbeat", kind |-> "service", service |-> services'[h.sid]]
    /\ inflight' = Remove(inflight, "heartbeat")
    /\ UNCHANGED <<routes, now, passPc, passTodo, passCache, passCount, dependencies>>

----------------------------------------------------------------------------
(* SpecRace: one service, registered once; heartbeat requests and probe    *)
(* passes overlap at their store operations.                               *)

RaceIds == {"a"}

RaceCreates ==
    {ServiceCreate(id, "n1", "h1", 8000, <<>>, <<>>, <<>>, <<>>, <<>>) : id \in RaceIds}

NextRace ==
    \/ \E d \in RaceCreates : ~Exists(d.id) /\ register_service(d)
    \/ \E sid \in RaceIds : heartbeat_get(sid)
    \/ heartbeat_commit
    \/ check_all_services_begin
    \/ \E sid \in RaceIds, is_healthy \in BOOLEAN : check_all_services_step(sid, is_healthy)
    \/ check_all_services_end
    \/ Tick

SpecRace == Init /\ [][NextRace]_vars

StoredPair(svcs, sid) == <<svcs[sid].status, svcs[sid].consecutive_failures>>

\* C16 as claimed: when a probe and a heartbeat of one service overlap, the
\* stored pair (status, consecutive_failures) after either of them commits
\* is the pair that one holds: after the probe's commit the pair of the
\* probe's object, after the heartbeat's commit (healthy, 0).
C16_AsClaimed ==
    [][\A sid \in RaceIds :
          /\ (\E is_healthy \in BOOLEAN : check_all_services_step(sid, is_healthy)) =>
                StoredPair(services', sid) = StoredPair(passCache', sid)
          /\ (heartbeat_commit /\ inflight["heartbeat"].sid = sid) =>
                StoredPair(services', sid) = <<"healthy", 0>>]_vars

----------------------------------------------------------------------------
(* The sweep step by step: its session selects the timed-out rows, marks   *)
(* the loaded objects and commits; requests may commit in between.         *)

\* check_heartbeat_timeout, lines 96-112: the query and the loop.
check_heartbeat_timeout_select ==
    /\ "sweep" \notin DOMAIN inflight
    /\ inflight' = ("sweep" :> [loaded |-> [sid \in TimedOut(services, now) |-> services[sid]]])
                      @@ inflight
    /\ UNCHANGED <<services, routes, now, ret, passPc, passTodo, passCache, passCount, dependencies>>

\* check_heartbeat_timeout, lines 114-115: commit and return.  The flush
\* updates the status of every selected row.  When a selected row has been
\* deleted the UPDATE matches fewer rows than expected: with one selected row
\* the flush raises StaleDataError; with several rows in one executemany the
\* dialect decides whether the row count is checked, so the flush either
\* raises or writes the rows that are left.
check_heartbeat_timeout_commit ==
    /\ "sweep" \in DOMAIN inflight
    /\ LET selected == DOMAIN inflight["sweep"].loaded
           marked == [sid \in DOMAIN services |->
                        IF sid \in selected THEN [services[sid] EXCEPT !.status = "unhealthy"]
                        ELSE services[sid]]
       IN  \/ /\ selected \subseteq DOMAIN services
                 \/ (Cardinality(selected) > 1 /\ selected \cap DOMAIN services # {})
              /\ services' = marked
              /\ ret' = [op |-> "sweep", kind |-> "count", n |-> Cardinality(selected)]
           \/ /\ ~(selected \subseteq DOMAIN services)
              /\ UNCHANGED services
              /\ ret' = [op |-> "sweep", kind |-> "error"]
    /\ inflight' = Remove(inflight, "sweep")
    /\ UNCHANGED <<routes, now, passPc, passTodo, passCache, passCount, dependencies>>

----------------------------------------------------------------------------
(* SpecCrud: two services, registered and registered again at start-up     *)
(* (now = 0); unregistrations and updates of service a are served at any   *)
(* time, while a probe pass or a sweep is in progress included.            *)

CrudIds == {"a", "b"}

CrudCreates ==
    {ServiceCreate(id, "n1", "h1", 8000, <<>>, <<>>, <<>>, <<>>, <<>>) : id \in CrudIds}

\* The service that requests unregister and update.
CrudTargets == {"a"}

CrudUpdates == {ServiceUpdate(<<"n2">>, <<>>, <<>>, <<>>, <<>>, <<>>, <<>>)}

NextCrud ==
    \/ now = 0 /\ \E d \in CrudCreates : register_service(d)
    \/ \E sid \in CrudTargets : unregister_service(sid)
    \/ \E sid \in CrudTargets, u \in CrudUpdates : update_service(sid, u)
    \/ check_all_services_begin
    \/ \E sid \in CrudIds, is_healthy \in BOOLEAN : check_all_services_step(sid, is_healthy)
    \/ check_all_services_end
    \/ check_heartbeat_timeout_select
    \/ check_heartbeat_timeout_commit
    \/ Tick

SpecCrud == Init /\ [][NextCrud]_vars

\* C17 as claimed: whatever requests are served meanwhile, a probe pass in
\* progress goes on until it has probed its whole snapshot, and a sweep
\* commits and marks every service it selected that still exists.
C17_AsClaimed ==
    [][/\ passPc = "run" => (passPc' = "run" \/ passTodo = {})
       /\ check_heartbeat_timeout_commit =>
             /\ ret'.kind = "count"
             /\ \A sid \in DOMAIN inflight["sweep"].loaded \cap DOMAIN services :
                   services'[sid].status = "unhealthy"]_vars

----------------------------------------------------------------------------
(* A create_dependency request step by step, one step per store operation; *)
(* slot names the request.  Other requests may commit between two steps.   *)

\* create_dependency, line 24: db.get of the source.
create_dependency_source(slot, b) ==
    /\ slot \notin DOMAIN inflight
    /\ inflight' = (slot :> [body |-> b, pc |-> "target",
                             source |-> b.source_service_id \in DOMAIN services]) @@ inflight
    /\ UNCHANGED <<services, routes, now, ret, passPc, passTodo, passCache, passCount, dependencies>>

\* create_dependency, lines 25-28: db.get of the target, and the check.
create_dependency_target(slot) ==
    /\ slot \in DOMAIN inflight /\ inflight[slot].pc = "target"
    /\ IF inflight[slot].source /\ inflight[slot].body.target_service_id \in DOMAIN services
       THEN /\ inflight' = [inflight EXCEPT ![slot].pc = "existing"]
            /\ UNCHANGED ret
       ELSE /\ inflight' = Remove(inflight, slot)
            /\ ret' = [op |-> "create_dependency", body |-> inflight[slot].body, kind |-> "none"]
    /\ UNCHANGED <<services, routes, now, passPc, passTodo, passCache, passCount, dependencies>>

\* create_dependency, lines 31-40: the query for the edge.
create_dependency_existing(slot) ==
    /\ slot \in DOMAIN inflight /\ inflight[slot].pc = "existing"
    /\ IF ExistingEdges(dependencies, inflight[slot].body) = {}
       THEN /\ inflight' = [inflight EXCEPT ![slot].pc = "insert"]
            /\ UNCHANGED ret
       ELSE /\ inflight' = Remove(inflight, slot)
            /\ ret' = [op |-> "create_dependency", body |-> inflight[slot].body, kind |-> "error"]
    /\ UNCHANGED <<services, routes, now, passPc, passTodo, passCache, passCount, dependencies>>

\* create_dependency, lines 43-47: insert, commit, refresh, return.
create_dependency_insert(slot) ==
    /\ slot \in DOMAIN inflight /\ inflight[slot].pc = "insert"
    /\ dependencies' = (NextRowId(dependencies) :>
                          NewDependency(NextRowId(dependencies), inflight[slot].body, now))
                          @@ dependencies
    /\ ret' = [op |-> "create_dependency", body |-> inflight[slot].body, kind |-> "dependency",
               dependency |-> dependencies'[NextRowId(dependencies)]]
    /\ inflight' = Remove(inflight, slot)
    /\ UNCHANGED <<services, routes, now, passPc, passTodo, passCache, passCount>>

----------------------------------------------------------------------------
(* SpecDependencies: two services and up to two create_dependency requests *)
(* in progress at once.                                                    *)

DependencySlots == {"request1", "request2"}

NextDependencies ==
    \/ \E d \in CrudCreates : register_service(d)
    \/ \E sid \in CrudIds : unregister_service(sid)
    \/ Cardinality(DOMAIN dependencies) < MaxDependencies
          /\ \E slot \in DependencySlots, b \in DependencyCreates : create_dependency_source(slot, b)
    \/ \E slot \in DependencySlots : create_dependency_target(slot)
    \/ \E slot \in DependencySlots : create_dependency_existing(slot)
    \/ \E slot \in DependencySlots : create_dependency_insert(slot)

SpecDependencies == Init /\ [][NextDependencies]_vars

\* C18 as claimed: in every reachable state, create requests for one pair
\* interleaved at their store operations included, no two dependencies have
\* the same (source, target) pair.
C18_AsClaimed ==
    \A d1, d2 \in DOMAIN dependencies :
       (/\ dependencies[d1].source_service_id = dependencies[d2].source_service_id
        /\ dependencies[d1].target_service_id = dependencies[d2].target_service_id)
          => d1 = d2

----------------------------------------------------------------------------
(* Properties of SpecStore: dependency creation *)

\* C19 as claimed: creating a dependency fails and changes nothing when the
\* source or the target is absent; when the edge exists it returns the
\* existing row and inserts nothing; otherwise it inserts exactly one edge
\* with the body's fields and returns it, an edge in the opposite direction
\* being no obstacle.
C19_AsClaimed ==
    [][\A b \in DependencyCreates :
          create_dependency(b) =>
             /\ services' = services /\ routes' = routes
             /\ IF ~DependencyAccepted(services, b)
                THEN ret'.kind = "none" /\ dependencies' = dependencies
                ELSE IF ExistingEdges(dependencies, b) # {}
                THEN /\ dependencies' = dependencies
                     /\ ret'.kind = "dependency"
                     /\ \E d \in ExistingEdges(dependencies, b) : ret'.dependency = dependencies[d]
                ELSE \E did \in DOMAIN dependencies' \ DOMAIN dependencies :
                        /\ DOMAIN dependencies' = DOMAIN dependencies \cup {did}
                        /\ \A d \in DOMAIN dependencies : dependencies'[d] = dependencies[d]
                        /\ dependencies'[did].source_service_id = b.source_service_id
                        /\ dependencies'[did].target_service_id = b.target_service_id
                        /\ ret'.kind = "dependency" /\ ret'.dependency = dependencies'[did]]_vars

----------------------------------------------------------------------------
(* Properties of SpecRoutes: route creation *)

\* C20: creating a route is rejected, no route inserted and nothing changed,
\* when gateway_service_id names no service or a service that is not a
\* gateway, or target_service_id names no service; otherwise exactly one
\* route is inserted, with the fields of the body, and returned.
C20_RouteCreate ==
    [][\A b \in RouteCreates :
          create_route(b) =>
             /\ services' = services /\ dependencies' = dependencies
             /\ IF \/ b.gateway_service_id \notin DOMAIN services
                   \/ ~services[b.gateway_service_id].is_gateway
                   \/ b.target_service_id \notin DOMAIN services
                THEN ret'.kind = "none" /\ routes' = routes
                ELSE \E rid \in DOMAIN routes' \ DOMAIN routes :
                        /\ DOMAIN routes' = DOMAIN routes \cup {rid}
                        /\ \A r \in DOMAIN routes : routes'[r] = routes[r]
                        /\ \A f \in DOMAIN b : routes'[rid][f] = b[f]
                        /\ ret'.kind = "route" /\ ret'.route = routes'[rid]]_vars

\* C20 witness: a route has just been created beside the default route of
\* its target, in a store where one registered service is no gateway.
C20_Witness ==
    /\ ret.op = "create_route" /\ ret.kind = "route"
    /\ routes[ret.route.id] = ret.route
    /\ Cardinality(Targeting(routes, ret.route.target_service_id)) = 2
    /\ \E sid \in DOMAIN services : ~services[sid].is_gateway

\* C20, the other case: a route has just been refused in a store where one
\* body names a registered gateway id and a registered target, and no body
\* is acceptable: the service named as gateway is not a gateway.
C20_WitnessRejected ==
    /\ ret.op = "create_route" /\ ret.kind = "none"
    /\ \E b \in RouteCreates :
          /\ b.gateway_service_id \in DOMAIN services
          /\ b.target_service_id \in DOMAIN services
          /\ \A c \in RouteCreates : RouteAccepted(services, c) = FALSE

----------------------------------------------------------------------------
(* Route update, delete and queries *)

\* A validated request body of PUT /routes/{id}: every field is optional;
\* fields_set is pydantic's model_fields_set, an unset field holds None.
\* The schema has no id and no gateway_service_id.
RouteUpdate(path_pattern, methods, target_service_id, strip_prefix, strip_path, priority, enabled, auth_config) ==
    [path_pattern |-> FromOpt(path_pattern, ""), methods |-> FromOpt(methods, ""),
     target_service_id |-> FromOpt(target_service_id, ""),
     strip_prefix |-> FromOpt(strip_prefix, FALSE),
     strip_path |-> FromOpt(strip_path, NoStripPath),
     priority |-> FromOpt(priority, 0), enabled |-> FromOpt(enabled, FALSE),
     auth_config |-> FromOpt(auth_config, NoAuthConfig),
     fields_set |-> {f \in {"path_pattern"} : path_pattern # <<>>}
                    \cup {f \in {"methods"} : methods # <<>>}
                    \cup {f \in {"target_service_id"} : target_service_id # <<>>}
                    \cup {f \in {"strip_prefix"} : strip_prefix # <<>>}
                    \cup {f \in {"strip_path"} : strip_path # <<>>}
                    \cup {f \in {"priority"} : priority # <<>>}
                    \cup {f \in {"enabled"} : enabled # <<>>}
                    \cup {f \in {"auth_config"} : auth_config # <<>>}]

\* Mutant: an update that does not look the new target up.
RouteUpdateAccepted_AnyTarget(svcs, u) == TRUE

\* The check of update_route: a supplied target names a stored service.
RouteUpdateAccepted(svcs, u) ==
    "target_service_id" \in u.fields_set => u.target_service_id \in DOMAIN svcs

\* The row after the setattr loop over model_dump(exclude_unset=True) and
\* the flush: the UPDATE is emitted when a column changed, and then
\* updated_at takes its onupdate value.
RouteUpdated(route, u, t) ==
    LET changed == {f \in u.fields_set : u[f] # route[f]}
    IN  [f \in DOMAIN route |->
            IF f \in u.fields_set THEN u[f]
            ELSE IF f = "updated_at" /\ changed # {} THEN t
            ELSE route[f]]

update_route(rid, u) ==
    /\ UNCHANGED <<services, now, passPc, passTodo, passCache, passCount, dependencies, inflight>>
    /\ IF rid \notin DOMAIN routes \/ ~RouteUpdateAccepted(services, u)
       THEN /\ routes' = routes
            /\ ret' = [op |-> "update_route", kind |-> "none"]
       ELSE /\ routes' = [routes EXCEPT ![rid] = RouteUpdated(@, u, now)]
            /\ ret' = [op |-> "update_route", kind |-> "route", route |-> routes'[rid]]

\* delete(Route).where(Route.id == route_id)
delete_route(rid) ==
    /\ routes' = Remove(routes, rid)
    /\ ret' = [op |-> "delete_route", kind |-> "bool", ok |-> rid \in DOMAIN routes]
    /\ UNCHANGED <<services, now, passPc, passTodo, passCache, passCount, dependencies, inflight>>

\* "no gateway_id": the argument None of get_all_routes.
NoGatewayId == ""

\* ORDER BY priority DESC, created_at DESC: row x may come before row y.
MatchOrder(x, y) ==
    \/ x.priority > y.priority
    \/ x.priority = y.priority /\ x.created_at >= y.created_at

\* ORDER BY priority DESC: row x may come before row y.
PriorityOrder(x, y) == x.priority >= y.priority

\* The ORDER BY clause named by order: row x may come before row y.
Before(order, x, y) ==
    IF order = "MatchOrder" THEN MatchOrder(x, y) ELSE PriorityOrder(x, y)

\* The sequences of the rows with ids S in an order the database may
\* return them under the ORDER BY clause order (rows that compare equal
\* come in either order).
Ordered(rts, S, order) ==
    {[i \in 1..Cardinality(S) |-> rts[q[i]]] :
        q \in {p \in [1..Cardinality(S) -> S] :
                 /\ \A i, j \in 1..Cardinality(S) : i < j => p[i] # p[j]
                 /\ \A i, j \in 1..Cardinality(S) : i < j => Before(order, rts[p[i]], rts[p[j]])}}

\* Mutant: the enabled filter is not applied.
get_all_routes_IgnoresEnabled(rts, gateway_id, enabled_only) ==
    Ordered(rts, {r \in DOMAIN rts :
                    gateway_id # NoGatewayId => rts[r].gateway_service_id = gateway_id},
            "MatchOrder")

\* get_all_routes: the lists the query can return.
get_all_routes(rts, gateway_id, enabled_only) ==
    Ordered(rts, {r \in DOMAIN rts :
                    /\ gateway_id # NoGatewayId => rts[r].gateway_service_id = gateway_id
                    /\ enabled_only => rts[r].enabled},
            "MatchOrder")

\* Mutant: the lowest priority comes first.
find_route_for_service_Lowest(rts, gateway_id, target_service_id) ==
    LET S == {r \in DOMAIN rts : /\ rts[r].gateway_service_id = gateway_id
                                 /\ rts[r].target_service_id = target_service_id
                                 /\ rts[r].enabled}
    IN  {rts[r] : r \in {x \in S : \A y \in S : rts[x].priority <= rts[y].priority}}

\* find_route_for_service: the rows scalars().first() can return; none
\* when the query selects no row.
find_route_for_service(rts, gateway_id, target_service_id) ==
    LET S == {r \in DOMAIN rts : /\ rts[r].gateway_service_id = gateway_id
                                 /\ rts[r].target_service_id = target_service_id
                                 /\ rts[r].enabled}
    IN  {q[1] : q \in {o \in Ordered(rts, S, "PriorityOrder") : Len(o) > 0}}

\* GET /routes
list_routes(gateway_id, enabled_only) ==
    /\ \E q \in get_all_routes(routes, gateway_id, enabled_only) :
          ret' = [op |-> "list_routes", kind |-> "routes", routes |-> q]
    /\ UNCHANGED <<services, routes, now, passPc, passTodo, passCache, passCount, dependencies, inflight>>

\* A call of find_route_for_service on the stored routes.
find_route(gateway_id, target_service_id) ==
    /\ LET found == find_route_for_service(routes, gateway_id, target_service_id)
       IN  IF found = {}
           THEN ret' = [op |-> "find_route", kind |-> "none"]
           ELSE \E r \in found :
                   ret' = [op |-> "find_route", kind |-> "route", route |-> r]
    /\ UNCHANGED <<services, routes, now, passPc, passTodo, passCache, passCount, dependencies, inflight>>

----------------------------------------------------------------------------
(* SpecGateway: two services that gain and lose the gateway flag, and the  *)
(* routes created and updated between them.                                *)

GatewayIds == {"a", "b"}

GatewayServiceCreates ==
    {ServiceCreate("a", "n1", "h1", 8000, <<>>, <<>>, <<>>, <<>>, <<>>)}
    \cup {ServiceCreate("b", "n1", "h1", 8000, <<>>, <<>>, is_gateway, <<>>, <<>>) :
            is_gateway \in {<<TRUE>>, <<FALSE>>}}

GatewayServiceUpdates ==
    {ServiceUpdate(<<>>, <<>>, <<>>, <<>>, <<>>, is_gateway, <<>>) :
        is_gateway \in {<<TRUE>>, <<FALSE>>}}

GatewayRouteCreates ==
    {RouteCreate(gw, "/x/*", "a", FALSE, NoStripPath, 0, TRUE, NoAuthConfig) :
        gw \in GatewayIds}

\* "z" names no service.
GatewayRouteUpdates ==
    {RouteUpdate(<<>>, <<>>, target_service_id, <<>>, <<>>, <<>>, enabled, <<>>) :
        target_service_id \in Opt({"b", "z"}), enabled \in Opt({FALSE})}

\* The clock of SpecGateway stops after this many scheduler periods.
GatewayTicks == 1

NextGateway ==
    \/ now = 0 /\ \E d \in GatewayServiceCreates : register_service(d)
    \/ \E sid \in GatewayIds, u \in GatewayServiceUpdates : update_service(sid, u)
    \/ Cardinality(DOMAIN routes) < MaxRoutes /\ \E b \in GatewayRouteCreates : create_route(b)
    \/ \E rid \in 1..MaxRoutes, u \in GatewayRouteUpdates : update_route(rid, u)
    \/ now < GatewayTicks * health_check_interval /\ Tick

SpecGateway == Init /\ [][NextGateway]_vars

----------------------------------------------------------------------------
(* Properties of SpecGateway *)

\* C21 as claimed: in every reachable state every stored route is owned by
\* a stored service whose is_gateway is true.
C21_AsClaimed ==
    \A r \in DOMAIN routes :
        /\ routes[r].gateway_service_id \in DOMAIN services
        /\ services[routes[r].gateway_service_id].is_gateway

\* C21: a route is owned by a stored service whose is_gateway is true when
\* the route is inserted, by create_route or as a default route, and no
\* step changes the gateway_service_id of a stored route; an update or a
\* re-register that clears is_gateway leaves the owner's routes in place.
C21_Amended ==
    [][\A r \in DOMAIN routes' :
          IF r \in DOMAIN routes
          THEN routes'[r].gateway_service_id = routes[r].gateway_service_id
          ELSE /\ routes'[r].gateway_service_id \in DOMAIN services'
               /\ services'[routes'[r].gateway_service_id].is_gateway]_vars

\* C21 witness: a route has just been created, after the first scheduler
\* period, for a gateway, beside the default route of its target.
C21_Witness ==
    /\ ret.op = "create_route" /\ ret.kind = "route"
    /\ routes[ret.route.id] = ret.route
    /\ services[ret.route.gateway_service_id].is_gateway
    /\ now > 0
    /\ \E r \in DOMAIN routes : IsDefaultRouteOf(routes[r], "a")

\* C22 as claimed: an update of a stored route changes exactly the fields
\* the body supplies.
C22_AsClaimed ==
    [][\A rid \in 1..MaxRoutes, u \in GatewayRouteUpdates :
          (/\ ret'.op = "update_route" /\ rid \in DOMAIN routes
           /\ RouteUpdateAccepted(services, u) /\ update_route(rid, u)) =>
             \A f \in DOMAIN routes[rid] :
                routes'[rid][f] = IF f \in u.fields_set THEN u[f] ELSE routes[rid][f]]_vars

\* C22: an update of a route whose body supplies a target_service_id that
\* names no stored service is rejected and leaves every route as it was, as
\* does an update of a route id that is not stored; any other update gives
\* the supplied fields their new values, stamps updated_at when one of them
\* differs from the stored value, and leaves every other field (id and
\* gateway_service_id among them), every other route and every service as
\* they were.
C22_Amended ==
    [][\A rid \in 1..MaxRoutes, u \in GatewayRouteUpdates :
          (ret'.op = "update_route" /\ update_route(rid, u)) =>
             /\ services' = services
             /\ IF \/ rid \notin DOMAIN routes
                   \/ /\ "target_service_id" \in u.fields_set
                      /\ u.target_service_id \notin DOMAIN services
                THEN routes' = routes /\ ret'.kind = "none"
                ELSE /\ DOMAIN routes' = DOMAIN routes
                     /\ \A r \in DOMAIN routes \ {rid} : routes'[r] = routes[r]
                     /\ routes'[rid].id = rid
                     /\ routes'[rid].gateway_service_id = routes[rid].gateway_service_id
                     /\ \A f \in DOMAIN routes[rid] :
                           routes'[rid][f] =
                              IF f \in u.fields_set THEN u[f]
                              ELSE IF f = "updated_at" /\ \E g \in u.fields_set : u[g] # routes[rid][g]
                              THEN now
                              ELSE routes[rid][f]
                     /\ ret'.kind = "route" /\ ret'.route = routes'[rid]]_vars

\* C22 witness: a route created in the first period has just been updated in
\* the next one: it is disabled, with a new target and its owner and id as
\* before, beside a second route.
C22_Witness ==
    /\ ret.op = "update_route" /\ ret.kind = "route"
    /\ routes[ret.route.id] = ret.route
    /\ ret.route.created_at = 0 /\ ret.route.updated_at = now /\ now > 0
    /\ ret.route.target_service_id = "b" /\ ~ret.route.enabled
    /\ ret.route.priority = 0
    /\ Cardinality(DOMAIN routes) = 2

\* C22, the other case: an update has just been refused while every route
\* id of the requests is stored, so for its target.
C22_WitnessRejected ==
    /\ ret.op = "update_route" /\ ret.kind = "none"
    /\ DOMAIN routes = 1..MaxRoutes

----------------------------------------------------------------------------
(* SpecMatch: two gateways and a service behind them; routes are created   *)
(* over several scheduler periods, listed and looked up.                   *)

MatchGateways == {"b", "c"}

MatchServiceCreates ==
    {ServiceCreate("a", "n1", "h1", 8000, <<>>, <<>>, <<>>, <<>>, <<>>)}
    \cup {ServiceCreate(g, "n1", "h1", 8000, <<>>, <<>>, <<TRUE>>, <<>>, <<>>) :
            g \in MatchGateways}

MatchRouteCreates ==
    {RouteCreate(gw, "/x/*", "a", FALSE, NoStripPath, priority, enabled, NoAuthConfig) :
        gw \in MatchGateways, priority \in {0, 10}, enabled \in BOOLEAN}
    \cup {RouteCreate("b", "/x/*", "b", FALSE, NoStripPath, 10, TRUE, NoAuthConfig)}

\* The clock of SpecMatch stops after this many scheduler periods.
MatchTicks == 1

NextMatch ==
    \/ now = 0 /\ \E d \in MatchServiceCreates : ~Exists(d.id) /\ register_service(d)
    \/ Cardinality(DOMAIN routes) <= MaxRoutes /\ \E b \in MatchRouteCreates : create_route(b)
    \/ \E g \in MatchGateways \cup {NoGatewayId}, enabled_only \in BOOLEAN : list_routes(g, enabled_only)
    \/ \E g \in MatchGateways, t \in {"a", "b"} : find_route(g, t)
    \/ now < MatchTicks * health_check_interval /\ Tick

SpecMatch == Init /\ [][NextMatch]_vars

----------------------------------------------------------------------------
(* Properties of SpecMatch *)

\* C23: listing the routes of a gateway with enabled_only returns each
\* enabled route of that gateway once and nothing else; without enabled_only
\* it returns each route of that gateway once, disabled ones included; both
\* lists are ordered by priority descending and then created_at descending,
\* and the store is left as it was.
C23_ListAll ==
    [][\A g \in MatchGateways, enabled_only \in BOOLEAN :
          (ret'.op = "list_routes" /\ list_routes(g, enabled_only)) =>
             LET q == ret'.routes
                 S == {r \in DOMAIN routes :
                         /\ routes[r].gateway_service_id = g
                         /\ enabled_only => routes[r].enabled}
             IN  /\ routes' = routes /\ services' = services
                 /\ Len(q) = Cardinality(S)
                 /\ {q[i] : i \in 1..Len(q)} = {routes[r] : r \in S}
                 /\ \A i, j \in 1..Len(q) :
                       i < j => \/ q[i].priority > q[j].priority
                                \/ /\ q[i].priority = q[j].priority
                                   /\ q[i].created_at >= q[j].created_at]_vars

\* C23 witness: a list of two routes of equal priority has just been
\* returned, the later one first, from a store of three routes of which one
\* is disabled.
C23_Witness ==
    /\ ret.op = "list_routes" /\ Len(ret.routes) = 2
    /\ ret.routes[1].priority = ret.routes[2].priority
    /\ ret.routes[1].created_at > ret.routes[2].created_at
    /\ ret.routes[1].gateway_service_id = ret.routes[2].gateway_service_id
    /\ Cardinality(DOMAIN routes) = 3
    /\ \E r \in DOMAIN routes :
          /\ ~routes[r].enabled
          /\ routes[r].gateway_service_id = ret.routes[1].gateway_service_id

\* C23, the other case: a list has just been returned that holds a disabled
\* route after an enabled one of higher priority.
C23_WitnessDisabled ==
    /\ ret.op = "list_routes" /\ Len(ret.routes) >= 2
    /\ ret.routes[1].enabled /\ ~ret.routes[2].enabled
    /\ ret.routes[1].priority > ret.routes[2].priority

\* C24: looking up the route from gateway g to a target returns nothing when
\* g has no enabled route to that target, and otherwise a stored enabled
\* route from g to that target whose priority is at least that of every
\* other enabled route from g to that target; the store is left as it was.
C24_FindRoute ==
    [][\A g \in MatchGateways, t \in {"a", "b"} :
          (ret'.op = "find_route" /\ find_route(g, t)) =>
             LET S == {r \in DOMAIN routes : /\ routes[r].gateway_service_id = g
                                             /\ routes[r].target_service_id = t
                                             /\ routes[r].enabled}
             IN  /\ routes' = routes /\ services' = services
                 /\ IF S = {} THEN ret'.kind = "none"
                    ELSE /\ ret'.kind = "route"
                         /\ \E r \in S :
                               /\ ret'.route = routes[r]
                               /\ \A y \in S : routes[r].priority >= routes[y].priority]_vars

\* C24 witness: a route has just been found while its gateway has an enabled
\* route of lower priority to the same target, and a third route is disabled
\* or belongs to the other gateway or leads to another target.
C24_Witness ==
    /\ ret.op = "find_route" /\ ret.kind = "route"
    /\ \E r \in DOMAIN routes :
          /\ routes[r].gateway_service_id = ret.route.gateway_service_id
          /\ routes[r].target_service_id = ret.route.target_service_id
          /\ routes[r].enabled /\ routes[r].priority < ret.route.priority
    /\ \E r \in DOMAIN routes :
          \/ ~routes[r].enabled
          \/ routes[r].gateway_service_id # ret.route.gateway_service_id
          \/ routes[r].target_service_id # ret.route.target_service_id

\* C24, the other case: nothing has just been found while a disabled route
\* and a route of another gateway are stored.
C24_WitnessNone ==
    /\ ret.op = "find_route" /\ ret.kind = "none"
    /\ \E r \in DOMAIN routes : ~routes[r].enabled
    /\ Cardinality({routes[r].gateway_service_id : r \in DOMAIN routes}) = 2

----------------------------------------------------------------------------
(* Gateway-routes enrichment *)

\* str(port) for the ports of the requests.
PortString(port) == CASE port = 8000 -> "8000" [] port = 9000 -> "9000"

\* Service.base_url
base_url(service) ==
    service.protocol \o "://" \o service.host \o ":" \o PortString(service.port)

\* The login paths of the requests that do not start with "/".
SlashLess == {"admin/login"}

\* login_path, with "/" put in front unless it starts with one.
WithLeadingSlash(login_path) ==
    IF login_path \in SlashLess THEN "/" \o login_path ELSE login_path

\* service_meta of an authentication service ("" : no login_path key).
AuthMeta(login_path) ==
    [present |-> TRUE, service_type |-> "authentication", login_path |-> login_path]

\* A stored auth_config naming an authentication service.
AuthConfig(auth_service_id, login_redirect) ==
    [present |-> TRUE, require_auth |-> TRUE, auth_service_id |-> auth_service_id,
     login_redirect |-> login_redirect]

TargetServiceInfo(service) ==
    [id |-> service.id, name |-> service.name, host |-> service.host,
     port |-> service.port, protocol |-> service.protocol, status |-> service.status,
     base_url |-> base_url(service)]

NoAuthService == [present |-> FALSE, id |-> "", name |-> "", base_url |-> ""]

AuthServiceInfo(service) ==
    [present |-> TRUE, id |-> service.id, name |-> service.name,
     base_url |-> base_url(service)]

\* The order in which the SQLite engine of database_url returns the rows
\* with ids S under the ORDER BY clause order: its sort is stable over
\* the scan of the table by id, so rows that compare equal come by id.
SqliteOrdered(rts, S, order) ==
    CHOOSE q \in Ordered(rts, S, order) :
        \A i, j \in 1..Len(q) :
            (i < j /\ Before(order, q[j], q[i])) => q[i].id < q[j].id

\* get_all_routes(db, gateway_id, enabled_only=True) as the engine answers.
EnabledRoutes(rts, gateway_id) ==
    SqliteOrdered(rts, {r \in DOMAIN rts : /\ rts[r].gateway_service_id = gateway_id
                                           /\ rts[r].enabled},
                  "MatchOrder")

\* find_route_for_service as the engine answers: <<>> for None.
AuthRoute(rts, gateway_id, target_service_id) ==
    LET q == SqliteOrdered(rts, {r \in DOMAIN rts :
                                    /\ rts[r].gateway_service_id = gateway_id
                                    /\ rts[r].target_service_id = target_service_id
                                    /\ rts[r].enabled},
                           "PriorityOrder")
    IN  IF Len(q) = 0 THEN <<>> ELSE <<q[1]>>

\* Mutant: the fallback to the direct address is taken whatever the route.
LoginRedirect_AlwaysDirect(rts, x_gateway_id, auth_svc) ==
    LET login_path == auth_svc.service_meta.login_path
    IN  IF login_path = "" THEN ""
        ELSE base_url(auth_svc) \o WithLeadingSlash(login_path)

\* The login_redirect put into the copy of an auth_config that has none and
\* names the authentication service auth_svc ("" : left unset).
\* base_url ends with the digits of the port: rstrip("/") removes nothing.
LoginRedirect(rts, x_gateway_id, auth_svc) ==
    LET login_path == auth_svc.service_meta.login_path
        auth_route == AuthRoute(rts, x_gateway_id, auth_svc.id)
    IN  IF login_path = "" THEN ""
        ELSE IF auth_route # <<>> /\ auth_route[1].strip_prefix
        THEN (IF auth_route[1].strip_path # NoStripPath
              THEN auth_route[1].strip_path
              ELSE "/" \o auth_svc.id) \o WithLeadingSlash(login_path)
        ELSE base_url(auth_svc) \o WithLeadingSlash(login_path)

\* Mutant: every stored service counts as an authentication service.
AuthServices_AnyService(svcs) == DOMAIN svcs

\* auth_services: the stored services of service_type "authentication".
AuthServices(svcs) ==
    {sid \in DOMAIN svcs : svcs[sid].service_meta.service_type = "authentication"}

\* One GatewayRouteResponse, for a route whose target is stored.
GatewayRouteResponse(svcs, rts, x_gateway_id, route) ==
    LET known == /\ route.auth_config.present
                 /\ route.auth_config.auth_service_id \in AuthServices(svcs)
    IN  [id |-> route.id, path_pattern |-> route.path_pattern, methods |-> route.methods,
         target_service_id |-> route.target_service_id,
         target_service |-> TargetServiceInfo(svcs[route.target_service_id]),
         strip_prefix |-> route.strip_prefix, strip_path |-> route.strip_path,
         priority |-> route.priority, enabled |-> route.enabled,
         auth_config |->
            IF known /\ route.auth_config.login_redirect = ""
            THEN [route.auth_config EXCEPT !.login_redirect =
                     LoginRedirect(rts, x_gateway_id, svcs[route.auth_config.auth_service_id])]
            ELSE route.auth_config,
         auth_service |->
            IF known THEN AuthServiceInfo(svcs[route.auth_config.auth_service_id])
            ELSE NoAuthService]

\* Mutant: the caller is not asked to be a gateway.
get_gateway_routes_AnyCaller(svcs, rts, x_gateway_id) ==
    IF x_gateway_id \notin DOMAIN svcs THEN [kind |-> "error", status |-> 404]
    ELSE LET q == EnabledRoutes(rts, x_gateway_id)
             kept == SelectSeq(q, LAMBDA r : r.target_service_id \in DOMAIN svcs)
         IN  [kind |-> "routes",
              routes |-> [i \in 1..Len(kept) |->
                             GatewayRouteResponse(svcs, rts, x_gateway_id, kept[i])]]

\* Mutant: a route whose target is missing ends the list.
get_gateway_routes_StopsAtMissing(svcs, rts, x_gateway_id) ==
    IF x_gateway_id \notin DOMAIN svcs THEN [kind |-> "error", status |-> 404]
    ELSE IF ~svcs[x_gateway_id].is_gateway THEN [kind |-> "error", status |-> 403]
    ELSE LET q == EnabledRoutes(rts, x_gateway_id)
             missing == {i \in 1..Len(q) : q[i].target_service_id \notin DOMAIN svcs}
             kept == IF missing = {} THEN q
                     ELSE SubSeq(q, 1, (CHOOSE i \in missing : \A j \in missing : i <= j) - 1)
         IN  [kind |-> "routes",
              routes |-> [i \in 1..Len(kept) |->
                             GatewayRouteResponse(svcs, rts, x_gateway_id, kept[i])]]

\* The response of GET /gateway/routes for caller x_gateway_id.
get_gateway_routes(svcs, rts, x_gateway_id) ==
    IF x_gateway_id \notin DOMAIN svcs THEN [kind |-> "error", status |-> 404]
    ELSE IF ~svcs[x_gateway_id].is_gateway THEN [kind |-> "error", status |-> 403]
    ELSE LET q == EnabledRoutes(rts, x_gateway_id)
             kept == SelectSeq(q, LAMBDA r : r.target_service_id \in DOMAIN svcs)
         IN  [kind |-> "routes",
              routes |-> [i \in 1..Len(kept) |->
                             GatewayRouteResponse(svcs, rts, x_gateway_id, kept[i])]]

\* Mutant: the derived login_redirect is stored in the route.
gateway_routes_WritesBack(x_gateway_id) ==
    /\ ret' = [op |-> "gateway_routes", x_gateway_id |-> x_gateway_id]
                 @@ get_gateway_routes(services, routes, x_gateway_id)
    /\ routes' = IF ret'.kind # "routes" THEN routes
                 ELSE [r \in DOMAIN routes |->
                         IF \E i \in 1..Len(ret'.routes) : ret'.routes[i].id = r
                         THEN [routes[r] EXCEPT !.auth_config =
                                  (CHOOSE e \in {ret'.routes[i] : i \in 1..Len(ret'.routes)} :
                                      e.id = r).auth_config]
                         ELSE routes[r]]
    /\ UNCHANGED <<services, now, passPc, passTodo, passCache, passCount, dependencies, inflight>>

\* GET /gateway/routes with the header X-Gateway-ID.
gateway_routes(x_gateway_id) ==
    /\ ret' = [op |-> "gateway_routes", x_gateway_id |-> x_gateway_id]
                 @@ get_gateway_routes(services, routes, x_gateway_id)
    /\ UNCHANGED <<services, routes, now, passPc, passTodo, passCache, passCount, dependencies, inflight>>

----------------------------------------------------------------------------
(* SpecEnrich: an authentication service, a gateway and a target behind    *)
(* it; routes with and without auth_config; the gateway's enriched list.   *)

EnrichIds == {"aegis", "b", "c"}

EnrichServiceCreates ==
    {ServiceCreate("aegis", "n1", "h1", 9000, <<>>, <<>>, <<>>, service_meta, <<>>) :
        service_meta \in Opt({AuthMeta("/admin/login"), AuthMeta("admin/login")})}
    \cup {ServiceCreate("b", "n1", "h1", 8000, <<>>, <<>>, <<TRUE>>, <<>>, <<>>)}
    \cup {ServiceCreate("c", "n1", "h2", 8000, <<"https">>, <<>>, <<TRUE>>, <<>>, <<>>)}

EnrichRouteCreates ==
    {RouteCreate("b", "/x/*", "c", FALSE, NoStripPath, 20, TRUE, AuthConfig("aegis", "")),
     RouteCreate("b", "/y/*", "c", FALSE, NoStripPath, 0, TRUE, AuthConfig("aegis", "/custom")),
     RouteCreate("b", "/aegis/*", "aegis", TRUE, NoStripPath, 20, TRUE, NoAuthConfig),
     RouteCreate("b", "/aegis/*", "aegis", FALSE, NoStripPath, 20, TRUE, NoAuthConfig),
     RouteCreate("b", "/auth/*", "aegis", TRUE, "/auth", 10, TRUE, NoAuthConfig),
     RouteCreate("b", "/off/*", "aegis", TRUE, "/off", 30, FALSE, NoAuthConfig),
     RouteCreate("c", "/x/*", "c", FALSE, NoStripPath, 0, TRUE, NoAuthConfig)}

NextEnrich ==
    \/ \E d \in EnrichServiceCreates : register_service(d)
    \/ unregister_service("c")
    \/ heartbeat("aegis")
    \/ Cardinality(DOMAIN routes) <= MaxRoutes /\ \E b \in EnrichRouteCreates : create_route(b)
    \/ \E x \in EnrichIds : gateway_routes(x)

SpecEnrich == Init /\ [][NextEnrich]_vars

----------------------------------------------------------------------------
(* Properties of SpecEnrich *)

\* C25: the enrichment for caller X answers 404 when no service X is stored,
\* 403 when X is stored with is_gateway false, and a route list only when X
\* is a stored gateway.
C25_Caller ==
    [][ret'.op = "gateway_routes" =>
          LET x == ret'.x_gateway_id
          IN  IF x \notin DOMAIN services
              THEN ret'.kind = "error" /\ ret'.status = 404
              ELSE IF ~services[x].is_gateway
              THEN ret'.kind = "error" /\ ret'.status = 403
              ELSE ret'.kind = "routes"]_vars

\* C25 witness: a stored service that is not a gateway has just been
\* answered 403 while a gateway owns an enabled route.
C25_Witness ==
    /\ ret.op = "gateway_routes" /\ ret.kind = "error" /\ ret.status = 403
    /\ ret.x_gateway_id \in DOMAIN services
    /\ \E r \in DOMAIN routes :
          /\ routes[r].enabled
          /\ routes[r].gateway_service_id \in DOMAIN services
          /\ services[routes[r].gateway_service_id].is_gateway

\* C25, the other case: a caller that is not stored has just been answered
\* 404 while routes that name it as their gateway are stored.
C25_WitnessNotFound ==
    /\ ret.op = "gateway_routes" /\ ret.kind = "error" /\ ret.status = 404
    /\ \E r \in DOMAIN routes : routes[r].gateway_service_id = ret.x_gateway_id

\* C26: the enriched list returned to gateway g has one entry for each
\* enabled route owned by g whose target is stored, and no other entry; the
\* entries come by priority descending and then created_at descending; each
\* entry carries the fields of its route and the id, host, port, protocol
\* and status its target has in the store at the time of the call.
C26_List ==
    [][(ret'.op = "gateway_routes" /\ ret'.kind = "routes") =>
          LET g == ret'.x_gateway_id
              q == ret'.routes
              S == {r \in DOMAIN routes : /\ routes[r].gateway_service_id = g
                                          /\ routes[r].enabled
                                          /\ routes[r].target_service_id \in DOMAIN services}
          IN  /\ Len(q) = Cardinality(S)
              /\ {q[i].id : i \in 1..Len(q)} = S
              /\ \A i, j \in 1..Len(q) :
                    i < j => \/ q[i].priority > q[j].priority
                             \/ /\ q[i].priority = q[j].priority
                                /\ routes[q[i].id].created_at >= routes[q[j].id].created_at
              /\ \A i \in 1..Len(q) :
                    LET route == routes[q[i].id]
                        target == services[route.target_service_id]
                    IN  /\ \A f \in {"path_pattern", "methods", "target_service_id",
                                     "strip_prefix", "strip_path", "priority", "enabled"} :
                              q[i][f] = route[f]
                        /\ \A f \in {"id", "host", "port", "protocol", "status"} :
                              q[i].target_service[f] = target[f]]_vars

\* C26 witness: a list has just been returned whose first entry shows a
\* healthy target, while the gateway also owns an enabled route of higher
\* priority whose target is missing and a disabled route.
C26_Witness ==
    /\ ret.op = "gateway_routes" /\ ret.kind = "routes" /\ Len(ret.routes) >= 1
    /\ ret.routes[1].target_service.status = "healthy"
    /\ \E r \in DOMAIN routes :
          /\ routes[r].gateway_service_id = ret.x_gateway_id /\ routes[r].enabled
          /\ routes[r].target_service_id \notin DOMAIN services
          /\ routes[r].priority > ret.routes[1].priority
    /\ \E r \in DOMAIN routes :
          routes[r].gateway_service_id = ret.x_gateway_id /\ ~routes[r].enabled

\* C26, the other case: a list of two entries of different priority has
\* just been returned while another gateway owns an enabled route.
C26_WitnessOther ==
    /\ ret.op = "gateway_routes" /\ ret.kind = "routes" /\ Len(ret.routes) = 2
    /\ ret.routes[1].priority > ret.routes[2].priority
    /\ \E r \in DOMAIN routes :
          /\ routes[r].gateway_service_id # ret.x_gateway_id /\ routes[r].enabled
          /\ routes[r].target_service_id \in DOMAIN services

\* C27: for an entry whose route's auth_config names a stored authentication
\* service A that has a login_path and supplies no login_redirect, the
\* entry's login_redirect is A's base_url followed by the login path (with a
\* leading "/") when the gateway has no enabled route to A, and otherwise,
\* for one of the gateway's enabled routes to A of highest priority, that
\* route's strip_path (or "/A" when it has none) followed by the login path
\* when the route has strip_prefix, and the base_url form when it has not.
C27_LoginRedirect ==
    [][(ret'.op = "gateway_routes" /\ ret'.kind = "routes") =>
          \A i \in 1..Len(ret'.routes) :
             LET g == ret'.x_gateway_id
                 e == ret'.routes[i]
                 c == routes[e.id].auth_config
                 A == c.auth_service_id
             IN  (/\ c.present /\ c.login_redirect = ""
                  /\ A \in DOMAIN services
                  /\ services[A].service_meta.service_type = "authentication"
                  /\ services[A].service_meta.login_path # "") =>
                    LET p == services[A].service_meta.login_path
                        login_path == IF p = "admin/login" THEN "/admin/login" ELSE p
                        direct == services[A].protocol \o "://" \o services[A].host
                                     \o ":9000" \o login_path
                        T == {r \in DOMAIN routes : /\ routes[r].gateway_service_id = g
                                                    /\ routes[r].target_service_id = A
                                                    /\ routes[r].enabled}
                    IN  IF T = {} THEN e.auth_config.login_redirect = direct
                        ELSE \E t \in T :
                                /\ \A y \in T : routes[t].priority >= routes[y].priority
                                /\ e.auth_config.login_redirect =
                                      IF routes[t].strip_prefix
                                      THEN (IF routes[t].strip_path # ""
                                            THEN routes[t].strip_path
                                            ELSE "/" \o A) \o login_path
                                      ELSE direct]_vars

\* C27 witness: the route /aegis/** with strip_path /aegis and the login
\* path /admin/login have just given the login_redirect /aegis/admin/login.
C27_Witness ==
    /\ ret.op = "gateway_routes" /\ ret.kind = "routes"
    /\ \E i \in 1..Len(ret.routes) :
          /\ ret.routes[i].auth_config.login_redirect = "/aegis/admin/login"
          /\ routes[ret.routes[i].id].auth_config.login_redirect = ""
    /\ \E r \in DOMAIN routes :
          /\ routes[r].path_pattern = "/aegis/**" /\ routes[r].strip_path = "/aegis"
          /\ routes[r].gateway_service_id = ret.x_gateway_id

\* C27, the other cases: the fallback to the direct address for a login
\* path stored without its leading "/", and the prefix "/aegis" for a route
\* that strips without a strip_path.
C27_WitnessDirect ==
    /\ ret.op = "gateway_routes" /\ ret.kind = "routes"
    /\ "aegis" \in DOMAIN services
    /\ services["aegis"].service_meta.login_path = "admin/login"
    /\ \E i \in 1..Len(ret.routes) :
          ret.routes[i].auth_config.login_redirect = "http://h1:9000/admin/login"

C27_WitnessFallbackPrefix ==
    /\ ret.op = "gateway_routes" /\ ret.kind = "routes"
    /\ \E i \in 1..Len(ret.routes) :
          ret.routes[i].auth_config.login_redirect = "/aegis/admin/login"
    /\ \A r \in DOMAIN routes : routes[r].strip_path # "/aegis"

----------------------------------------------------------------------------
(* The scheduler and self-registration *)

\* settings.service_id: the registry's own service id.
service_id == "serviceatlas"

\* The ServiceCreate lifespan builds for the registry itself; base_path is
\* passed as None.
SelfCreate ==
    ServiceCreate(service_id, "ServiceAtlas", "127.0.0.1", 9000, <<"http">>, <<"/health">>,
                  <<FALSE>>, <<Meta1>>, <<NoBasePath>>)

\* The interval jobs lifespan adds: all three have a period of
\* health_check_interval (the self-heartbeat's literal 30 s).
Jobs == {"health_check", "heartbeat_timeout", "self_heartbeat"}

\* The jobs of the current period that the scheduler has not started yet.
DueJobs == IF "scheduler" \in DOMAIN inflight THEN inflight["scheduler"].due ELSE {}

\* The scheduler's bookkeeping once it has started job.
Started(job) == [inflight EXCEPT !["scheduler"].due = @ \ {job}]

\* lifespan, before the scheduler starts: the registry registers itself.
lifespan_register == now = 0 /\ ~Exists(service_id) /\ register_service(SelfCreate)

\* One period goes by and every job is due again.  The jobs of the period
\* before have ended: each takes less than a period.
interval_elapses ==
    /\ Exists(service_id)
    /\ DueJobs = {} /\ passPc = "idle"
    /\ "heartbeat" \notin DOMAIN inflight /\ "sweep" \notin DOMAIN inflight
    /\ now + health_check_interval <= MaxTicks * health_check_interval
    /\ now' = now + health_check_interval
    /\ inflight' = ("scheduler" :> [due |-> Jobs]) @@ inflight
    /\ UNCHANGED <<services, routes, ret, passPc, passTodo, passCache, passCount, dependencies>>

\* The job 'health_check' starts.
job_health_check ==
    "health_check" \in DueJobs /\ check_all_services_open(Started("health_check"))

\* The job 'heartbeat_timeout' runs.
job_heartbeat_timeout ==
    "heartbeat_timeout" \in DueJobs /\ check_heartbeat_timeout_run(Started("heartbeat_timeout"))

\* The job 'self_heartbeat' starts: heartbeat(db, settings.service_id).
self_heartbeat ==
    "self_heartbeat" \in DueJobs /\ heartbeat_load(service_id, Started("self_heartbeat"))

----------------------------------------------------------------------------
(* SpecSelf: the registry registers itself at start-up; in every period    *)
(* the probe pass, the sweep and the self-heartbeat run once, their store  *)
(* operations in any order.                                                *)

NextSelf ==
    \/ lifespan_register
    \/ interval_elapses
    \/ job_health_check
    \/ \E is_healthy \in BOOLEAN : check_all_services_step(service_id, is_healthy)
    \/ check_all_services_end
    \/ job_heartbeat_timeout
    \/ self_heartbeat
    \/ heartbeat_commit

SpecSelf == Init /\ [][NextSelf]_vars

\* C29 as claimed: once the first self-heartbeat has committed, the
\* registry's own record is healthy in every state.
C29_AsClaimed ==
    (/\ Exists(service_id)
     /\ services[service_id].last_heartbeat > services[service_id].registered_at) =>
        services[service_id].status = "healthy"

----------------------------------------------------------------------------
(* SpecQuiesce: the registry and a service "a" that registers at start-up  *)
(* and never sends a heartbeat; the jobs run in every period, for ever.    *)
(* The clock stops counting at MaxTicks periods: from then on "now" stands *)
(* for every later instant, which the sweep cannot tell apart for a        *)
(* last_heartbeat that is already older than heartbeat_timeout.            *)

QuiesceCreates == {ServiceCreate("a", "n1", "h1", 8000, <<>>, <<>>, <<>>, <<>>, <<>>)}

\* A period goes by after the clock has stopped counting.
interval_elapses_late ==
    /\ Exists(service_id)
    /\ DueJobs = {} /\ passPc = "idle"
    /\ "heartbeat" \notin DOMAIN inflight /\ "sweep" \notin DOMAIN inflight
    /\ now = MaxTicks * health_check_interval
    /\ inflight' = ("scheduler" :> [due |-> Jobs]) @@ inflight
    /\ UNCHANGED <<services, routes, now, ret, passPc, passTodo, passCache, passCount, dependencies>>

probe_step == \E sid \in {service_id, "a"}, is_healthy \in BOOLEAN : check_all_services_step(sid, is_healthy)

NextQuiesce ==
    \/ lifespan_register
    \/ now = 0 /\ \E d \in QuiesceCreates : ~Exists(d.id) /\ register_service(d)
    \/ interval_elapses
    \/ interval_elapses_late
    \/ job_health_check
    \/ probe_step
    \/ check_all_services_end
    \/ job_heartbeat_timeout
    \/ self_heartbeat
    \/ heartbeat_commit

\* The scheduler starts every due job and every started job goes on to its
\* end; what a probe answers is up to the probed service.
SpecQuiesce ==
    /\ Init /\ [][NextQuiesce]_vars
    /\ WF_vars(interval_elapses) /\ WF_vars(interval_elapses_late)
    /\ WF_vars(job_health_check) /\ WF_vars(probe_step) /\ WF_vars(check_all_services_end)
    /\ WF_vars(job_heartbeat_timeout)
    /\ WF_vars(self_heartbeat) /\ WF_vars(heartbeat_commit)

\* C30 as claimed: for the service that never sends a heartbeat, from some
\* point on no run of the sweep changes its status.
C30_AsClaimed ==
    <>[][job_heartbeat_timeout =>
            (Exists("a") => services'["a"].status = services["a"].status)]_vars

----------------------------------------------------------------------------
(* The HTTP surface of the registry (app/api/registry.py) *)

HTTP_201_CREATED == 201

\* POST /services: the status line of the answer to the call r of
\* register_service.  The route is declared with one status_code, which
\* FastAPI uses for every answer the handler returns; an exception that
\* leaves the handler is answered by the server's error response.
post_services_status(r) ==
    IF r.kind = "error" THEN 500 ELSE HTTP_201_CREATED

\* C31 as claimed: POST /services answers 201 when it created the record
\* and 200 when it re-registered an id that already existed.
C31_AsClaimed ==
    (ret.op = "register" /\ ret.kind = "service")
        => post_services_status(ret) = (IF ret.existing THEN 200 ELSE 201)

----------------------------------------------------------------------------
(* Bootstrap preload (app/services/preload.py) *)

\* An entry of a list of services.yaml: a mapping from which the request
\* body is built, a mapping from which it cannot be built (a required key
\* is missing: KeyError, or the schema rejects a value: ValidationError),
\* or a value that is not a mapping (a bare string).
Entry(body) == [shape |-> "mapping", valid |-> TRUE, body |-> body]

InvalidEntry == [shape |-> "mapping", valid |-> FALSE]

ScalarEntry == [shape |-> "scalar", valid |-> FALSE]

\* ServiceCreate(...) as preload_services builds it: every field but
\* base_path is passed.
PreloadService(id, name, host, port, is_gateway) ==
    ServiceCreate(id, name, host, port, <<"http">>, <<"/health">>, <<is_gateway>>, <<NoneMeta>>, <<>>)

\* RouteCreate(...) as preload_services builds it.
PreloadRoute(gateway, path_pattern, target) ==
    RouteCreate(gateway, path_pattern, target, FALSE, NoStripPath, 0, TRUE, NoAuthConfig)

\* The three loops of preload_services, in their order.
Stages == <<"services", "dependencies", "routes">>

RECURSIVE Settle(_, _, _)
\* The position of the next entry to apply from loop k, entry i on: loops
\* that are exhausted are left; k = Len(Stages) + 1 when none is left.
Settle(config, k, i) ==
    IF k > Len(Stages) THEN [k |-> k, i |-> 1]
    ELSE IF i > Len(config[Stages[k]]) THEN Settle(config, k + 1, 1)
    ELSE [k |-> k, i |-> i]

\* The session of preload_services after the entry at p.k, p.i.
Advanced(p) ==
    [p EXCEPT !.k = Settle(p.config, p.k, p.i + 1).k,
              !.i = Settle(p.config, p.k, p.i + 1).i]

\* The tables as the session of preload_services sees them: the committed
\* rows and the services it has flushed but not committed.
Seen(p) == p.pending @@ services

\* config = load_services_config()
preload_begin(config) ==
    /\ ret.op = "init"
    /\ "preload" \notin DOMAIN inflight
    /\ inflight' = ("preload" :> [config |-> config, k |-> Settle(config, 1, 1).k,
                                  i |-> Settle(config, 1, 1).i, pending |-> <<>>]) @@ inflight
    /\ ret' = [op |-> "preload", kind |-> "loaded"]
    /\ UNCHANGED <<services, routes, now, passPc, passTodo, passCache, passCount, dependencies>>

\* An entry that raised inside the try block and whose handler only prints.
preload_skip(p) ==
    /\ inflight' = [inflight EXCEPT !["preload"] = Advanced(p)]
    /\ ret' = [op |-> "preload", kind |-> "skipped", stage |-> Stages[p.k], i |-> p.i]
    /\ UNCHANGED <<services, routes, dependencies>>

\* One turn of the loop over config["services"].  For an entry that is not
\* a mapping svc["id"] raises TypeError, and the handler's svc.get raises
\* AttributeError, which leaves preload_services and ends the start-up.
\* When _create_default_route raises, the flushed service stays in the
\* session and is committed with the next commit.
preload_service ==
    /\ "preload" \in DOMAIN inflight
    /\ LET p == inflight["preload"]
       IN  /\ p.k <= Len(Stages) /\ Stages[p.k] = "services"
           /\ LET e == p.config.services[p.i]
              IN  IF e.shape = "scalar"
                  THEN /\ inflight' = Remove(inflight, "preload")
                       /\ ret' = [op |-> "preload", kind |-> "aborted"]
                       /\ UNCHANGED <<services, routes, dependencies>>
                  ELSE IF ~e.valid THEN preload_skip(p)
                  ELSE IF e.body.id \in DOMAIN Seen(p)
                  THEN /\ services' = [Seen(p) EXCEPT ![e.body.id] = ReRegistered(@, e.body, now)]
                       /\ inflight' = [inflight EXCEPT !["preload"] = [Advanced(p) EXCEPT !.pending = <<>>]]
                       /\ ret' = [op |-> "preload", kind |-> "applied", stage |-> "services", i |-> p.i]
                       /\ UNCHANGED <<routes, dependencies>>
                  ELSE LET flushed == (e.body.id :> NewService(e.body, now)) @@ Seen(p)
                       IN  IF e.body.is_gateway
                           THEN /\ services' = flushed
                                /\ inflight' = [inflight EXCEPT !["preload"] = [Advanced(p) EXCEPT !.pending = <<>>]]
                                /\ ret' = [op |-> "preload", kind |-> "applied", stage |-> "services", i |-> p.i]
                                /\ UNCHANGED <<routes, dependencies>>
                           ELSE \E o \in create_default_route(flushed, routes, e.body.id, now) :
                                  IF o.error
                                  THEN /\ inflight' = [inflight EXCEPT !["preload"] =
                                              [Advanced(p) EXCEPT !.pending =
                                                  [id \in DOMAIN flushed \ DOMAIN services |-> flushed[id]]]]
                                       /\ ret' = [op |-> "preload", kind |-> "skipped", stage |-> "services", i |-> p.i]
                                       /\ UNCHANGED <<services, routes, dependencies>>
                                  ELSE /\ services' = flushed
                                       /\ routes' = o.routes
                                       /\ inflight' = [inflight EXCEPT !["preload"] = [Advanced(p) EXCEPT !.pending = <<>>]]
                                       /\ ret' = [op |-> "preload", kind |-> "applied", stage |-> "services", i |-> p.i]
                                       /\ UNCHANGED dependencies
    /\ UNCHANGED <<now, passPc, passTodo, passCache, passCount>>

\* One turn of the loop over config["dependencies"]: create_dependency
\* returns None for an unknown service and raises for an edge that exists.
preload_dependency ==
    /\ "preload" \in DOMAIN inflight
    /\ LET p == inflight["preload"]
       IN  /\ p.k <= Len(Stages) /\ Stages[p.k] = "dependencies"
           /\ LET e == p.config.dependencies[p.i]
              IN  IF ~e.valid THEN preload_skip(p)
                  ELSE IF ~DependencyAccepted(Seen(p), e.body) THEN preload_skip(p)
                  ELSE IF ExistingEdges(dependencies, e.body) # {} THEN preload_skip(p)
                  ELSE /\ dependencies' = (NextRowId(dependencies) :>
                                NewDependency(NextRowId(dependencies), e.body, now)) @@ dependencies
                       /\ services' = Seen(p)
                       /\ inflight' = [inflight EXCEPT !["preload"] = [Advanced(p) EXCEPT !.pending = <<>>]]
                       /\ ret' = [op |-> "preload", kind |-> "applied", stage |-> "dependencies", i |-> p.i]
                       /\ UNCHANGED routes
    /\ UNCHANGED <<now, passPc, passTodo, passCache, passCount>>

\* One turn of the loop over config["routes"]: create_route returns None
\* when its checks fail.
preload_route ==
    /\ "preload" \in DOMAIN inflight
    /\ LET p == inflight["preload"]
       IN  /\ p.k <= Len(Stages) /\ Stages[p.k] = "routes"
           /\ LET e == p.config.routes[p.i]
              IN  IF ~e.valid THEN preload_skip(p)
                  ELSE IF ~RouteAccepted(Seen(p), e.body) THEN preload_skip(p)
                  ELSE /\ routes' = (NextRowId(routes) :> NewRoute(NextRowId(routes), e.body, now)) @@ routes
                       /\ services' = Seen(p)
                       /\ inflight' = [inflight EXCEPT !["preload"] = [Advanced(p) EXCEPT !.pending = <<>>]]
                       /\ ret' = [op |-> "preload", kind |-> "applied", stage |-> "routes", i |-> p.i]
                       /\ UNCHANGED dependencies
    /\ UNCHANGED <<now, passPc, passTodo, passCache, passCount>>

\* preload_services returns after the last loop.
preload_end ==
    /\ "preload" \in DOMAIN inflight
    /\ inflight["preload"].k > Len(Stages)
    /\ inflight' = Remove(inflight, "preload")
    /\ ret' = [op |-> "preload", kind |-> "done", config |-> inflight["preload"].config]
    /\ UNCHANGED <<services, routes, now, passPc, passTodo, passCache, passCount, dependencies>>

(* SpecPreload: the start-up on an empty database with a services.yaml of  *)
(* at most MaxEntries entries per list: a gateway g, a service a, a        *)
(* dependency and routes between them or to the absent service z, and      *)
(* entries that cannot be applied.                                         *)

MaxEntries == 2

SeqUpTo(S, n) == UNION {[1..k -> S] : k \in 0..n}

ServiceEntries ==
    {Entry(PreloadService("g", "n1", "h1", 8000, TRUE)),
     Entry(PreloadService("a", "n1", "h1", 8000, FALSE)),
     InvalidEntry, ScalarEntry}

DependencyEntries ==
    {Entry(DependencyCreate("a", "g", NoDescription)),
     Entry(DependencyCreate("a", "z", NoDescription)),
     InvalidEntry, ScalarEntry}

RouteEntries ==
    {Entry(PreloadRoute("g", "/x/*", "a")),
     Entry(PreloadRoute("a", "/x/*", "g")),
     Entry(PreloadRoute("g", "/x/*", "z")),
     ScalarEntry}

Configs ==
    {[services |-> s, dependencies |-> d, routes |-> r] :
        s \in SeqUpTo(ServiceEntries, MaxEntries),
        d \in SeqUpTo(DependencyEntries, MaxEntries),
        r \in SeqUpTo(RouteEntries, MaxEntries)}

NextPreload ==
    \/ \E config \in Configs : preload_begin(config)
    \/ preload_service
    \/ preload_dependency
    \/ preload_route
    \/ preload_end

SpecPreload == Init /\ [][NextPreload]_vars

\* The bodies of the entries of list l that are mappings of a valid body.
Bodies(l) == {l[i].body : i \in {j \in 1..Len(l) : l[j].valid}}

\* C32 as claimed: the bootstrap never aborts on a failing entry, and when
\* it has ended the store holds the valid entries of the document and
\* nothing of the others: the services of the valid service entries, one
\* dependency for each entry between two of them, and, besides the
\* default routes that the registrations add, the routes of the entries
\* whose gateway is a stored gateway and whose target is stored.
C32_AsClaimed ==
    /\ ret.op = "preload" => ret.kind # "aborted"
    /\ (ret.op = "preload" /\ ret.kind = "done") =>
          /\ DOMAIN services = {b.id : b \in Bodies(ret.config.services)}
          /\ {<<dependencies[d].source_service_id, dependencies[d].target_service_id>> :
                 d \in DOMAIN dependencies}
               = {<<b.source_service_id, b.target_service_id>> :
                    b \in {x \in Bodies(ret.config.dependencies) : DependencyAccepted(services, x)}}
          /\ {[routes[r] EXCEPT !.id = 0] :
                 r \in {x \in DOMAIN routes :
                          routes[x] # DefaultRoute(x, routes[x].gateway_service_id,
                                                   routes[x].target_service_id, routes[x].created_at)}}
               = {NewRoute(0, b, 0) :
                    b \in {x \in Bodies(ret.config.routes) : RouteAccepted(services, x)}}

----------------------------------------------------------------------------
(* Registration without a gateway (SpecRoutes) *)

\* C33: the first registration of a non-gateway service while the store
\* holds no gateway succeeds: it returns the new row, the row is stored,
\* and the route table is left as it was.
C33_NoGateway ==
    [][(Registers /\ ~Exists(ret'.body.id) /\ ~ret'.body.is_gateway
          /\ Gateways(services) = {}) =>
          LET d == ret'.body
          IN  /\ ret'.kind = "service"
              /\ d.id \in DOMAIN services'
              /\ services'[d.id] = NewService(d, now)
              /\ ret'.service = services'[d.id]
              /\ routes' = routes]_vars

\* C33 witness: a non-gateway service has just been registered for the
\* first time, the store holds no gateway, and no route targets it.
C33_Witness ==
    /\ ret.op = "register" /\ ret.kind = "service" /\ ~ret.existing
    /\ ~ret.service.is_gateway
    /\ ret.service.id \in DOMAIN services
    /\ Gateways(services) = {}
    /\ Targeting(routes, ret.service.id) = {}

\* C33 witness: the same with routes of an unregistered gateway left in
\* the table that target the new service.
C33_WitnessDangling ==
    /\ ret.op = "register" /\ ret.kind = "service" /\ ~ret.existing
    /\ ~ret.service.is_gateway
    /\ Gateways(services) = {}
    /\ Cardinality(Targeting(routes, ret.service.id)) = 2

----------------------------------------------------------------------------
(* The authentication data of an enriched entry (SpecEnrich) *)

\* C34: in every entry of an answer of GET /gateway/routes, auth_service
\* is present iff the stored route has an auth_config whose auth_service_id
\* names a stored service with service_type "authentication"; a
\* login_redirect that the stored auth_config supplies is returned as it
\* is; and an entry of a route without auth_config has neither auth_config
\* nor auth_service.
C34_AuthService ==
    [][(ret'.op = "gateway_routes" /\ ret'.kind = "routes") =>
          \A i \in 1..Len(ret'.routes) :
             LET e == ret'.routes[i]
                 c == routes[e.id].auth_config
             IN  /\ e.auth_service.present <=>
                       /\ c.present
                       /\ c.auth_service_id \in DOMAIN services
                       /\ services[c.auth_service_id].service_meta.service_type = "authentication"
                 /\ e.auth_service.present => e.auth_service.id = c.auth_service_id
                 /\ c.login_redirect # "" => e.auth_config = c
                 /\ ~c.present => (~e.auth_config.present /\ ~e.auth_service.present)]_vars

\* C34 witness: one answer holds an entry with the authentication service
\* embedded and the stored login_redirect "/custom" returned, although the
\* gateway has a stripping route to the service from which one could be
\* derived.
C34_Witness ==
    /\ ret.op = "gateway_routes" /\ ret.kind = "routes"
    /\ \E i \in 1..Len(ret.routes) :
          /\ ret.routes[i].auth_service.present
          /\ ret.routes[i].auth_service.id = "aegis"
          /\ routes[ret.routes[i].id].auth_config.login_redirect = "/custom"
          /\ ret.routes[i].auth_config.login_redirect = "/custom"
          /\ services["aegis"].service_meta.login_path # ""
    /\ \E r \in DOMAIN routes :
          /\ routes[r].gateway_service_id = ret.x_gateway_id
          /\ routes[r].target_service_id = "aegis"
          /\ routes[r].enabled /\ routes[r].strip_prefix

\* C34 witness: an entry whose auth_config names a stored service that is
\* not an authentication service, and an entry without auth_config.
C34_WitnessAbsent ==
    /\ ret.op = "gateway_routes" /\ ret.kind = "routes"
    /\ "aegis" \in DOMAIN services
    /\ services["aegis"].service_meta.service_type # "authentication"
    /\ \E i \in 1..Len(ret.routes) :
          /\ routes[ret.routes[i].id].auth_config.auth_service_id = "aegis"
          /\ ~ret.routes[i].auth_service.present
          /\ ret.routes[i].auth_config = routes[ret.routes[i].id].auth_config
    /\ \E i \in 1..Len(ret.routes) :
          /\ ~routes[ret.routes[i].id].auth_config.present
          /\ ~ret.routes[i].auth_config.present

----------------------------------------------------------------------------
(* Statistics (app/services/discovery.py, GET /stats) *)

\* select count(*) from services where status = s, on table svcs.
CountStatus(svcs, s) == Cardinality({id \in DOMAIN svcs : svcs[id].status = s})

\* The four count queries of get_service_stats are awaited one after the
\* other on a connection that opens no read transaction (the driver begins
\* a transaction only before a write), so each sees what is committed when
\* it runs.  inflight["stats"] holds the counts read so far; read is the
\* set of tables the queries have read.

\* total_query
stats_total ==
    /\ "stats" \notin DOMAIN inflight
    /\ inflight' = ("stats" :> [pc |-> "healthy", total |-> Cardinality(DOMAIN services),
                                healthy |-> 0, unhealthy |-> 0, read |-> {services}]) @@ inflight
    /\ UNCHANGED <<services, routes, now, ret, passPc, passTodo, passCache, passCount, dependencies>>

\* healthy_query
stats_healthy ==
    /\ "stats" \in DOMAIN inflight /\ inflight["stats"].pc = "healthy"
    /\ inflight' = [inflight EXCEPT !["stats"] =
                       [@ EXCEPT !.pc = "unhealthy", !.healthy = CountStatus(services, "healthy"),
                                 !.read = @ \cup {services}]]
    /\ UNCHANGED <<services, routes, now, ret, passPc, passTodo, passCache, passCount, dependencies>>

\* unhealthy_query
stats_unhealthy ==
    /\ "stats" \in DOMAIN inflight /\ inflight["stats"].pc = "unhealthy"
    /\ inflight' = [inflight EXCEPT !["stats"] =
                       [@ EXCEPT !.pc = "gateways", !.unhealthy = CountStatus(services, "unhealthy"),
                                 !.read = @ \cup {services}]]
    /\ UNCHANGED <<services, routes, now, ret, passPc, passTodo, passCache, passCount, dependencies>>

\* The dict get_service_stats returns.
Stats(total, healthy, unhealthy, gateways) ==
    [total |-> total, healthy |-> healthy, unhealthy |-> unhealthy,
     unknown |-> total - healthy - unhealthy, gateways |-> gateways]

\* gateway_query and the return.
stats_gateways ==
    /\ "stats" \in DOMAIN inflight /\ inflight["stats"].pc = "gateways"
    /\ LET p == inflight["stats"]
       IN  ret' = [op |-> "stats", kind |-> "stats",
                   stats |-> Stats(p.total, p.healthy, p.unhealthy,
                                   Cardinality({id \in DOMAIN services : services[id].is_gateway})),
                   read |-> p.read \cup {services}]
    /\ inflight' = Remove(inflight, "stats")
    /\ UNCHANGED <<services, routes, now, passPc, passTodo, passCache, passCount, dependencies>>

(* SpecStats: two services that register, heartbeat and unregister while   *)
(* GET /stats is being answered.                                           *)

StatsIds == {"a", "b"}

StatsCreates == {ServiceCreate(id, "n1", "h1", 8000, <<>>, <<>>, <<>>, <<>>, <<>>) : id \in StatsIds}

NextStats ==
    \/ \E d \in StatsCreates : register_service(d)
    \/ \E sid \in StatsIds : unregister_service(sid)
    \/ \E sid \in StatsIds : heartbeat(sid)
    \/ stats_total
    \/ stats_healthy
    \/ stats_unhealthy
    \/ stats_gateways

SpecStats == Init /\ [][NextStats]_vars

\* The counts by status of table svcs.
StoreCounts(svcs) ==
    [total |-> Cardinality(DOMAIN svcs), healthy |-> CountStatus(svcs, "healthy"),
     unhealthy |-> CountStatus(svcs, "unhealthy"), unknown |-> CountStatus(svcs, "unknown")]

\* C35 as claimed: the counts GetStats returns sum to total, unknown is
\* not negative, and total, healthy, unhealthy and unknown are the counts
\* of the store (as it was when one of the call's queries read it), also
\* when registrations, unregistrations and heartbeats commit between the
\* queries.
C35_AsClaimed ==
    (ret.op = "stats") =>
        /\ ret.stats.healthy + ret.stats.unhealthy + ret.stats.unknown = ret.stats.total
        /\ ret.stats.unknown >= 0
        /\ \E svcs \in ret.read :
              [f \in DOMAIN StoreCounts(svcs) |-> ret.stats[f]] = StoreCounts(svcs)

----------------------------------------------------------------------------
(* The report of a probe pass (Spec) *)

\* C36: a probe pass takes every service of its snapshot exactly once: each
\* turn of its loop takes one service not yet probed and adds one to
\* checked and one to healthy or to unhealthy, as the probe succeeded or
\* failed; the pass returns when none is left, and its report has checked
\* equal to the size of the snapshot, checked = healthy + unhealthy, and
\* unhealthy equal to the number of services whose probe failed in the pass.
C36_Report ==
    [][/\ (passPc = "idle" /\ passPc' = "run") =>
             /\ passTodo' = DOMAIN services /\ DOMAIN passCache' = DOMAIN services
             /\ passCount' = [checked |-> 0, healthy |-> 0, unhealthy |-> 0]
       /\ (passPc = "run" /\ passPc' = "run") =>
             \/ UNCHANGED <<passTodo, passCount>>
             \/ \E sid \in passTodo :
                   /\ passTodo' = passTodo \ {sid}
                   /\ passCount'.checked = passCount.checked + 1
                   /\ \/ /\ passCache'[sid].consecutive_failures = passCache[sid].consecutive_failures + 1
                         /\ passCount'.unhealthy = passCount.unhealthy + 1
                         /\ passCount'.healthy = passCount.healthy
                      \/ /\ passCache'[sid].consecutive_failures = 0
                         /\ passCache'[sid].status = "healthy"
                         /\ passCount'.healthy = passCount.healthy + 1
                         /\ passCount'.unhealthy = passCount.unhealthy
       /\ (passPc = "run" /\ passPc' = "idle" /\ ret'.kind = "probe") =>
             /\ passTodo = {}
             /\ ret'.op = "probe"
             /\ ret'.checked = Cardinality(DOMAIN passCache)
             /\ ret'.checked = ret'.healthy + ret'.unhealthy
             /\ ret'.unhealthy = Cardinality({sid \in DOMAIN passCache :
                                                passCache[sid].consecutive_failures > 0})
             /\ ret'.healthy = Cardinality({sid \in DOMAIN passCache :
                                              /\ passCache[sid].consecutive_failures = 0
                                              /\ passCache[sid].status = "healthy"})]_vars

\* C36 witness: a pass over two services has just reported one successful
\* and one failed probe, and no stored service is unhealthy.
C36_Witness ==
    /\ ret.op = "probe" /\ ret.kind = "probe"
    /\ passPc = "idle"
    /\ ret.checked = 2 /\ ret.healthy = 1 /\ ret.unhealthy = 1
    /\ Cardinality(DOMAIN services) = 2
    /\ \A sid \in DOMAIN services : services[sid].status # "unhealthy"
    /\ \E sid \in DOMAIN services : services[sid].consecutive_failures = 1

----------------------------------------------------------------------------
(* The failure counter and the status (SpecRace) *)

\* C37 as claimed: in every state a stored service with
\* consecutive_failures >= unhealthy_threshold has status unhealthy, also
\* when a heartbeat commits between the read and the write of a probe pass.
C37_AsClaimed ==
    \A sid \in DOMAIN services :
        services[sid].consecutive_failures >= unhealthy_threshold
            => services[sid].status = "unhealthy"

----------------------------------------------------------------------------
(* Referential integrity (SpecDependencies) *)

\* C38 as claimed: in every state every dependency's source and target and
\* every route's gateway and target are stored services, whatever the
\* interleaving of unregistrations with create requests.
C38_AsClaimed ==
    /\ \A d \in DOMAIN dependencies :
          /\ dependencies[d].source_service_id \in DOMAIN services
          /\ dependencies[d].target_service_id \in DOMAIN services
    /\ \A r \in DOMAIN routes :
          /\ routes[r].gateway_service_id \in DOMAIN services
          /\ routes[r].target_service_id \in DOMAIN services

----------------------------------------------------------------------------
(* POST /monitor/health-check (app/api/monitor.py): a probe pass of its own *)

\* trigger_health_check calls check_all_services, which opens a session of
\* its own: the pass of the request runs beside the scheduler's pass.
\* inflight["manual"] holds what passTodo, passCache and passCount hold for
\* the scheduler's pass.

\* check_all_services, lines 62-69, called by the request.
trigger_health_check_begin ==
    /\ "manual" \notin DOMAIN inflight
    /\ inflight' = ("manual" :> [todo |-> DOMAIN services, cache |-> services,
                                 count |-> [checked |-> 0, healthy |-> 0, unhealthy |-> 0]])
                      @@ inflight
    /\ UNCHANGED <<services, routes, now, ret, passPc, passTodo, passCache, passCount, dependencies>>

\* check_all_services, lines 71-79, called by the request.
trigger_health_check_step(sid, is_healthy) ==
    /\ "manual" \in DOMAIN inflight
    /\ sid \in inflight["manual"].todo
    /\ is_healthy \/ inflight["manual"].cache[sid].consecutive_failures < MaxFailures
    /\ LET m == inflight["manual"]
           loaded == m.cache[sid]
           changed == update_service_status(loaded, is_healthy)
           dirty == Dirty(loaded, changed)
       IN  IF dirty # {} /\ sid \notin DOMAIN services
           THEN /\ inflight' = Remove(inflight, "manual")
                /\ ret' = [op |-> "trigger_health_check", kind |-> "error"]
                /\ UNCHANGED services
           ELSE /\ services' = IF dirty = {} THEN services
                               ELSE [services EXCEPT ![sid] = Flushed(@, changed, dirty)]
                /\ inflight' = [inflight EXCEPT !["manual"] =
                       [todo |-> m.todo \ {sid},
                        cache |-> [m.cache EXCEPT ![sid] = changed],
                        count |-> [checked |-> m.count.checked + 1,
                                   healthy |-> m.count.healthy + (IF is_healthy THEN 1 ELSE 0),
                                   unhealthy |-> m.count.unhealthy + (IF is_healthy THEN 0 ELSE 1)]]]
                /\ UNCHANGED ret
    /\ UNCHANGED <<routes, now, passPc, passTodo, passCache, passCount, dependencies>>

\* check_all_services, lines 81-86, and the answer of the request.
trigger_health_check_end ==
    /\ "manual" \in DOMAIN inflight
    /\ inflight["manual"].todo = {}
    /\ ret' = [op |-> "trigger_health_check", kind |-> "probe",
               checked |-> inflight["manual"].count.checked,
               healthy |-> inflight["manual"].count.healthy,
               unhealthy |-> inflight["manual"].count.unhealthy]
    /\ inflight' = Remove(inflight, "manual")
    /\ UNCHANGED <<services, routes, now, passPc, passTodo, passCache, passCount, dependencies>>

(* SpecManual: one service, the scheduler's probe pass and the pass of a   *)
(* POST /monitor/health-check, interleaved at their store operations.      *)

ManualIds == {"a"}

ManualCreates == {ServiceCreate("a", "n1", "h1", 8000, <<>>, <<>>, <<>>, <<>>, <<>>)}

NextManual ==
    \/ \E d \in ManualCreates : ~Exists(d.id) /\ register_service(d)
    \/ check_all_services_begin
    \/ \E sid \in ManualIds, is_healthy \in BOOLEAN : check_all_services_step(sid, is_healthy)
    \/ check_all_services_end
    \/ trigger_health_check_begin
    \/ \E sid \in ManualIds, is_healthy \in BOOLEAN : trigger_health_check_step(sid, is_healthy)
    \/ trigger_health_check_end
    \/ Tick

SpecManual == Init /\ [][NextManual]_vars

\* C39 as claimed: when a pass stores a failed probe of a service while the
\* other pass is in progress and has stored a failed probe of it too, both
\* having loaded the service with the same count n, the stored
\* consecutive_failures is then n + 2: neither failure is lost.
C39_AsClaimed ==
    [][\A sid \in ManualIds :
          /\ (/\ passPc = "run" /\ "manual" \in DOMAIN inflight /\ "manual" \in DOMAIN inflight'
              /\ sid \in DOMAIN passCache /\ sid \notin passTodo
              /\ sid \in inflight["manual"].todo /\ sid \notin inflight'["manual"].todo
              /\ inflight'["manual"].cache[sid].consecutive_failures
                    = inflight["manual"].cache[sid].consecutive_failures + 1
              /\ passCache[sid].consecutive_failures
                    = inflight["manual"].cache[sid].consecutive_failures + 1)
                => services'[sid].consecutive_failures
                      = inflight["manual"].cache[sid].consecutive_failures + 2
          /\ (/\ passPc = "run" /\ passPc' = "run" /\ "manual" \in DOMAIN inflight
              /\ sid \in DOMAIN inflight["manual"].cache /\ sid \notin inflight["manual"].todo
              /\ sid \in passTodo /\ sid \notin passTodo'
              /\ passCache'[sid].consecutive_failures = passCache[sid].consecutive_failures + 1
              /\ inflight["manual"].cache[sid].consecutive_failures
                    = passCache[sid].consecutive_failures + 1)
                => services'[sid].consecutive_failures
                      = passCache[sid].consecutive_failures + 2]_vars

----------------------------------------------------------------------------
(* SpecUnrouted: a service a and a gateway g that register in either order, *)
(* re-register, are updated and unregistered; routes from g to a are        *)
(* created explicitly.                                                      *)

UnroutedIds == {"a", "g"}

UnroutedCreates ==
    {ServiceCreate("a", "n1", "h1", 8000, <<>>, <<>>, <<>>, <<>>, <<>>),
     ServiceCreate("g", "n1", "h1", 8000, <<>>, <<>>, <<TRUE>>, <<>>, <<>>)}

UnroutedUpdates ==
    {ServiceUpdate(<<"n3">>, <<>>, <<>>, <<>>, <<>>, <<>>, <<>>)}
    \cup {ServiceUpdate(<<>>, <<>>, <<>>, <<>>, <<>>, <<is_gateway>>, <<>>) : is_gateway \in BOOLEAN}

UnroutedTicks == 2

UnroutedRouteCreates == {RouteCreate("g", "/x/*", "a", FALSE, NoStripPath, 0, TRUE, NoAuthConfig)}

NextUnrouted ==
    \/ \E d \in UnroutedCreates : register_service(d)
    \/ \E sid \in UnroutedIds : unregister_service(sid)
    \/ \E sid \in UnroutedIds, u \in UnroutedUpdates : update_service(sid, u)
    \/ Cardinality(DOMAIN routes) < MaxRoutes /\ \E b \in UnroutedRouteCreates : create_route(b)
    \/ now < UnroutedTicks * health_check_interval /\ Tick

SpecUnrouted == Init /\ [][NextUnrouted]_vars

\* C40: a stored non-gateway service that no route targets (as one is that
\* was first registered while no gateway existed) has no route after any
\* registration, of a gateway or its own again, and after any update: as
\* long as its record is stored, only an explicit route creation gives it
\* a route.
C40_StaysUnrouted ==
    [][\A sid \in UnroutedIds :
          (/\ Exists(sid) /\ ~services[sid].is_gateway
           /\ Targeting(routes, sid) = {}
           /\ ret'.op \in {"register", "update"})
              => /\ Targeting(routes', sid) = {}
                 /\ routes' = routes]_vars

\* C40 witness: service a, registered before any gateway, has just been
\* registered again at a later time while gateway g is stored, and no
\* route targets it.
C40_Witness ==
    /\ ret.op = "register" /\ ret.kind = "service" /\ ret.existing
    /\ ret.service.id = "a" /\ ~services["a"].is_gateway
    /\ "g" \in DOMAIN services /\ services["g"].is_gateway
    /\ services["a"].registered_at < services["g"].registered_at
    /\ services["a"].last_heartbeat > services["g"].registered_at
    /\ Targeting(routes, "a") = {}

\* C40, the other cases: the gateway has just registered beside the
\* unrouted service; the unrouted service has just been updated.
C40_WitnessGateway ==
    /\ ret.op = "register" /\ ret.kind = "service" /\ ~ret.existing
    /\ ret.service.id = "g"
    /\ "a" \in DOMAIN services /\ ~services["a"].is_gateway
    /\ Targeting(routes, "a") = {}

C40_WitnessUpdate ==
    /\ ret.op = "update" /\ ret.kind = "service"
    /\ "a" \in DOMAIN services /\ ~services["a"].is_gateway
    /\ services["a"].name = "n3"
    /\ "g" \in DOMAIN services /\ services["g"].is_gateway
    /\ Targeting(routes, "a") = {}

====
